---- MODULE Spec2Model ----
(***************************************************************************)
(* Jellyfin -> Todoist bridge: the two webhook workflows of handlers.py    *)
(* (handle_item_added, handle_playback_stop), the section helpers of       *)
(* todoist_helpers.py and the mapping table of database.py.                *)
(*                                                                         *)
(* The remote project (sections, tasks) and the sqlite table are shared    *)
(* state.  Each handler is "async def" but only makes blocking calls, so   *)
(* one server process runs one workflow at a time; several server          *)
(* processes (Workers) share the remote project and the database file and  *)
(* interleave at every remote or database call.  SpecSerial is the single  *)
(* process deployment: one workflow at a time.                             *)
(*                                                                         *)
(* Ids are strings in the code; here a section or task id is its index in  *)
(* the remote collection and 0 stands for None.                            *)
(***************************************************************************)
EXTENDS Integers, Sequences, FiniteSets

\* ---------------------------------------------------------------- bounds

\* Number of webhook events delivered in one behaviour.
MaxEvents == 2

\* Number of get_or_create_section calls in one behaviour of SpecGoc.
MaxCalls == 3

\* Number of ":"-separated fields of the RunTime and PlaybackPosition strings
\* that SpecWebhook delivers.
MaxParts == 3

\* range(5) of the confirmation loop.
MaxChecks == 5

\* Number of tasks added in one behaviour of SpecClient.
MaxTasks == 3

\* Number of active tasks the project of SpecReorder holds.
MaxHeld == 2

\* Number of rows inserted in one behaviour of SpecStore.
MaxSaves == 3

\* Longest duration, in seconds, SpecTime renders and parses.
MaxSeconds == 7300

\* "is_completed = time_diff <= 60"
FinishedWithin == 60

\* Number of entries in one answer of the id-mapping endpoint.
MaxMappings == 2

Workers == {"w1", "w2"}

\* External (Jellyfin) item ids and series names carried by the payloads.
Items == {"e1", "e2", "e3"}

Keys == {"A", "B"}

\* get_series_name(data): e1 and e2 are episodes of series A, e3 of series B.
SeriesOf(i) == IF i = "e3" THEN "B" ELSE "A"

\* A string is the sequence of its characters.  "0:01:0" is 60 seconds and
\* "0:0:01" is 1 second.
RunTimeOfEpisode == <<"0", ":", "0", "1", ":", "0">>

PositionAtEnd == <<"0", ":", "0", ":", "0", "1">>

\* The body of a webhook request: Json tells whether it is a JSON object, some
\* other JSON value ("array") or no JSON at all ("malformed"); the other
\* fields are those the handlers read from the object.  The PlaybackStop
\* events of Spec report a position within a minute of the end.
Payload(t, i, runtime, position) ==
    [Json |-> "object", NotificationType |-> t, ItemId |-> i,
     Id |-> "", item_id |-> "", id |-> "", SeriesName |-> SeriesOf(i),
     RunTime |-> runtime, PlaybackPosition |-> position]

Payloads ==
    {Payload("ItemAdded", i, <<>>, <<>>) : i \in Items}
        \cup {Payload("PlaybackStop", i, RunTimeOfEpisode, PositionAtEnd) : i \in Items}

NoPayload == Payload("", "", <<>>, <<>>)

\* The fields between the colons of the time strings SpecWebhook delivers:
\* empty, a digit, digits with a leading zero, not a number.
Tokens == {<<>>, <<"0">>, <<"0", "1">>, <<"x">>}

RECURSIVE Join(_)
Join(parts) ==
    IF parts = <<>> THEN <<>>
    ELSE IF Len(parts) = 1 THEN parts[1]
    ELSE parts[1] \o <<":">> \o Join(Tail(parts))

TimeStrings == {Join(parts) : parts \in UNION {[1..n -> Tokens] : n \in 0..MaxParts}}

\* The requests of SpecWebhook: no JSON, JSON that is no object, PlaybackStop
\* objects with every pair of time strings, with and without an item id,
\* ItemAdded and other notifications, and ItemAdded and finished PlaybackStop
\* objects with every choice of present and absent id fields.
Bodies ==
    {[NoPayload EXCEPT !.Json = j] : j \in {"malformed", "array"}}
        \cup {Payload("PlaybackStop", i, r, q) :
                  i \in {"e1", ""}, r \in TimeStrings, q \in TimeStrings}
        \cup {Payload(t, i, <<>>, <<>>) :
                  t \in {"ItemAdded", "UserCreated", ""}, i \in {"e2", ""}}
        \cup {[Payload(t, a, RunTimeOfEpisode, PositionAtEnd)
                   EXCEPT !.Id = b, !.item_id = c, !.id = d] :
                  t \in {"ItemAdded", "PlaybackStop"},
                  a \in {"", "e1"}, b \in {"", "e2"}, c \in {"", "e3"}, d \in {"", "e1"}}

NoRow == [todoist_item_id |-> 0, completed_at |-> FALSE]

\* faults counts the update_section requests that have failed so far; repeat
\* says that the call repeats the reorder_sections call made just before it.
NoCall ==
    [op |-> "none", arg |-> 0, status |-> 0, listed |-> FALSE, tasks_read |-> FALSE,
     issued |-> {}, failed |-> {}, ret |-> FALSE, faults |-> 0, repeat |-> FALSE]

\* The table item_mappings as created by init_database, empty.  saved is the
\* todoist_item_id of the last save_mapping of each key that returned True.
NoStore ==
    [rows |-> {}, seq |-> 0, saved |-> [i \in Items |-> 0],
     op |-> "none", key |-> "", ret |-> 0, replaced |-> {}]

\* No call of parse_time_string yet.
NoTime == [op |-> "none", seconds |-> 0, time_str |-> <<>>, ret |-> 0]

NoMap ==
    [op |-> "none", legacy_id |-> <<>>, requests |-> <<>>,
     response |-> [status |-> 0, mappings |-> <<>>],
     ret |-> 0]

VARIABLES
    sections,        \* remote: id -> [name, is_archived]
    tasks,           \* remote: id -> [section_id, active]
    item_mappings,   \* sqlite table: jellyfin_item_id -> row
    pc,              \* per worker: the call its workflow makes next
    data,            \* per worker: the payload being handled
    section_id,      \* per worker: local of both handlers
    todoist_item_id, \* per worker: local of both handlers
    closed_ok,       \* per worker: local of handle_playback_stop
    attempts,        \* per worker: iterations of the confirmation loop so far
    trace,           \* per worker: the calls its current workflow has made
    archiveCmds,     \* per section: archive commands issued for it since it
                     \* last got a task or was unarchived
    received,        \* events delivered so far
    gocLog,          \* SpecGoc: results of the get_or_create_section calls
    clientCall,      \* SpecClient: the last TodoistClient call and its result
    store,           \* SpecStore: the rows of item_mappings, the AUTOINCREMENT
                     \* counter, the last call of database.py and its result
    timeCall,        \* SpecTime: the call of parse_time_string and its result
    mapCall          \* SpecLegacy: the call of map_legacy_task_id_to_v1, the
                     \* requests it has made and its result

vars ==
    <<sections, tasks, item_mappings, pc, data, section_id, todoist_item_id,
      closed_ok, attempts, trace, archiveCmds, received, gocLog, clientCall, store, timeCall, mapCall>>

remoteVars == <<sections, tasks>>

\* ------------------------------------------------------------ the remote

RECURSIVE FirstIn(_, _, _, _)
\* for s in listing: if Pred(s): return s.id   (0 when the loop falls through)
FirstIn(secs, i, name, wantArchived) ==
    IF i > Len(secs) THEN 0
    ELSE IF secs[i].name = name /\ secs[i].is_archived = wantArchived THEN i
    ELSE FirstIn(secs, i + 1, name, wantArchived)

\* Mutant: the listing is taken to hold the archived sections too.
FirstByName_Archived(secs, name) ==
    IF FirstIn(secs, 1, name, FALSE) # 0 /\ FirstIn(secs, 1, name, TRUE) # 0
    THEN IF FirstIn(secs, 1, name, FALSE) < FirstIn(secs, 1, name, TRUE)
         THEN FirstIn(secs, 1, name, FALSE) ELSE FirstIn(secs, 1, name, TRUE)
    ELSE FirstIn(secs, 1, name, FALSE) + FirstIn(secs, 1, name, TRUE)

\* api.get_sections(project_id) lists the sections that are not archived, in
\* section order; the loop of the callers returns the first whose name is equal.
FirstByName(secs, name) == FirstIn(secs, 1, name, FALSE)

\* The sync read lists every section; the loop returns the first archived one
\* with that name.
FirstArchivedByName(secs, name) == FirstIn(secs, 1, name, TRUE)

\* api.add_section(project_id, name): the remote appends a new section, even
\* when one of that name exists.
AddSection(secs, name) == Append(secs, [name |-> name, is_archived |-> FALSE])

\* The id add_section answers with.
CreatedId(secs, name) == Len(secs) + 1

\* Mutant: the task is created without its section.
NewTask_NoSection(sid) == [section_id |-> 0, active |-> TRUE]

\* add_task(content=title, project_id=..., section_id=section_id, due_string="today")
NewTask(sid) == [section_id |-> sid, active |-> TRUE]

SetArchived(secs, sid, flag) ==
    IF sid \in DOMAIN secs THEN [secs EXCEPT ![sid].is_archived = flag] ELSE secs

\* Mutant: any listed task makes the section non-empty.
is_section_empty_AnyTask(tsks, sid) ==
    \A t \in DOMAIN tsks : ~tsks[t].active

\* get_tasks_in_project + the loop of is_section_empty: no listed (active) task
\* refers to the section.
is_section_empty(tsks, sid) ==
    \A t \in DOMAIN tsks : ~(tsks[t].active /\ tsks[t].section_id = sid)

Call(w, op, r) == trace' = [trace EXCEPT ![w] = Append(@, [op |-> op, r |-> r])]

Goto(w, label) == pc' = [pc EXCEPT ![w] = label]

Running(w) == pc[w] \notin {"idle", "returned", "raised", "bad_request"}

\* ---------------------------------------------------------------- utils

\* What parse_time_string returns for a string it cannot parse.
None == -1

DigitValue(c) ==
    CASE c = "0" -> 0 [] c = "1" -> 1 [] c = "2" -> 2 [] c = "3" -> 3 [] c = "4" -> 4
      [] c = "5" -> 5 [] c = "6" -> 6 [] c = "7" -> 7 [] c = "8" -> 8 [] c = "9" -> 9
      [] OTHER -> None

RECURSIVE DecimalValue(_, _)
DecimalValue(s, n) ==
    IF n = 0 THEN 0 ELSE 10 * DecimalValue(s, n - 1) + DigitValue(s[n])

\* int(part): ValueError (None here) for the empty string and for any
\* character that is not a digit.
ToInt(s) ==
    IF s = <<>> \/ \E i \in DOMAIN s : DigitValue(s[i]) = None
    THEN None
    ELSE DecimalValue(s, Len(s))

RECURSIVE Split(_)
\* time_str.split(':')
Split(s) ==
    IF \A i \in DOMAIN s : s[i] # ":" THEN <<s>>
    ELSE LET i == CHOOSE k \in DOMAIN s : s[k] = ":" /\ \A j \in 1..(k - 1) : s[j] # ":"
         IN  <<SubSeq(s, 1, i - 1)>> \o Split(SubSeq(s, i + 1, Len(s)))

\* Mutant: an hour counts 60 seconds.
parse_time_string_ShortHours(time_str) ==
    IF time_str = <<>> THEN None
    ELSE LET parts == Split(time_str)
             n == [i \in DOMAIN parts |-> ToInt(parts[i])]
         IN  IF \E i \in DOMAIN parts : Len(parts) \in {2, 3} /\ n[i] = None THEN None
             ELSE IF Len(parts) = 3 THEN n[1] * 60 + n[2] * 60 + n[3]
             ELSE IF Len(parts) = 2 THEN n[1] * 60 + n[2]
             ELSE None

\* parse_time_string: HH:MM:SS or MM:SS to seconds, None otherwise.
parse_time_string(time_str) ==
    IF time_str = <<>> THEN None
    ELSE LET parts == Split(time_str)
             n == [i \in DOMAIN parts |-> ToInt(parts[i])]
         IN  IF \E i \in DOMAIN parts : Len(parts) \in {2, 3} /\ n[i] = None THEN None
             ELSE IF Len(parts) = 3 THEN n[1] * 3600 + n[2] * 60 + n[3]
             ELSE IF Len(parts) = 2 THEN n[1] * 60 + n[2]
             ELSE None

DigitChar(d) ==
    CASE d = 0 -> "0" [] d = 1 -> "1" [] d = 2 -> "2" [] d = 3 -> "3" [] d = 4 -> "4"
      [] d = 5 -> "5" [] d = 6 -> "6" [] d = 7 -> "7" [] d = 8 -> "8" [] d = 9 -> "9"

RECURSIVE Decimal(_)
Decimal(n) == IF n < 10 THEN <<DigitChar(n)>> ELSE Decimal(n \div 10) \o <<DigitChar(n % 10)>>

\* A field of a rendered duration: two digits at least.
TwoDigits(n) == IF n < 10 THEN <<"0">> \o Decimal(n) ELSE Decimal(n)

\* The renderings of a duration Jellyfin sends: HH:MM:SS, and MM:SS with the
\* hours counted in the minutes.
RenderHMS(seconds) ==
    TwoDigits(seconds \div 3600) \o <<":">> \o TwoDigits((seconds % 3600) \div 60)
        \o <<":">> \o TwoDigits(seconds % 60)

RenderMS(seconds) == TwoDigits(seconds \div 60) \o <<":">> \o TwoDigits(seconds % 60)

\* The strings SpecTime parses besides renderings: up to MaxParts + 1 fields.
LooseStrings == {Join(parts) : parts \in UNION {[1..n -> Tokens] : n \in 0..(MaxParts + 1)}}

\* parse_time_string called on the HH:MM:SS rendering of a duration.
ParseHMS(seconds) ==
    /\ timeCall' = [op |-> "HH:MM:SS", seconds |-> seconds, time_str |-> RenderHMS(seconds),
                    ret |-> parse_time_string(RenderHMS(seconds))]
    /\ UNCHANGED <<sections, tasks, item_mappings, pc, data, section_id, todoist_item_id,
                   closed_ok, attempts, trace, archiveCmds, received, gocLog, clientCall, store, mapCall>>

\* parse_time_string called on the MM:SS rendering of a duration.
ParseMS(seconds) ==
    /\ timeCall' = [op |-> "MM:SS", seconds |-> seconds, time_str |-> RenderMS(seconds),
                    ret |-> parse_time_string(RenderMS(seconds))]
    /\ UNCHANGED <<sections, tasks, item_mappings, pc, data, section_id, todoist_item_id,
                   closed_ok, attempts, trace, archiveCmds, received, gocLog, clientCall, store, mapCall>>

\* parse_time_string called on any string.
ParseLoose(time_str) ==
    /\ timeCall' = [op |-> "string", seconds |-> 0, time_str |-> time_str,
                    ret |-> parse_time_string(time_str)]
    /\ UNCHANGED <<sections, tasks, item_mappings, pc, data, section_id, todoist_item_id,
                   closed_ok, attempts, trace, archiveCmds, received, gocLog, clientCall, store, mapCall>>

\* ------------------------------------------------------------- dispatch

\* Mutant: the difference is taken without abs().
is_completed_Signed(runtime_seconds, playback_position_seconds) ==
    runtime_seconds - playback_position_seconds <= FinishedWithin

\* time_diff = abs(runtime_seconds - playback_position_seconds);
\* is_completed = time_diff <= 60
is_completed(runtime_seconds, playback_position_seconds) ==
    LET time_diff == IF runtime_seconds >= playback_position_seconds
                     THEN runtime_seconds - playback_position_seconds
                     ELSE playback_position_seconds - runtime_seconds
    IN  time_diff <= FinishedWithin

\* Mutant: Id is looked at before ItemId.
JellyfinItemId_IdFirst(p) ==
    IF p.Id # "" THEN p.Id
    ELSE IF p.ItemId # "" THEN p.ItemId
    ELSE IF p.item_id # "" THEN p.item_id
    ELSE p.id

\* "data.get('ItemId') or data.get('Id') or data.get('item_id') or
\* data.get('id')": a field that is missing or empty is "" here, and so is
\* the result when all four are.
JellyfinItemId(p) ==
    IF p.ItemId # "" THEN p.ItemId
    ELSE IF p.Id # "" THEN p.Id
    ELSE IF p.item_id # "" THEN p.item_id
    ELSE p.id

\* Mutant: an event that is not finished is processed all the same.
PlaybackStopEntry_Always(p) == IF JellyfinItemId(p) = "" THEN "returned" ELSE "ps_lookup"

\* The head of handle_playback_stop: return when a time is missing or does
\* not parse, when the event is not finished, or when there is no item id.
PlaybackStopEntry(p) ==
    LET runtime_seconds == parse_time_string(p.RunTime)
        playback_position_seconds == parse_time_string(p.PlaybackPosition)
    IN  IF runtime_seconds = None \/ playback_position_seconds = None THEN "returned"
        ELSE IF ~is_completed(runtime_seconds, playback_position_seconds) THEN "returned"
        ELSE IF JellyfinItemId(p) = "" THEN "returned"
        ELSE "ps_lookup"

\* The head of handle_item_added: return when there is no item id.
ItemAddedEntry(p) == IF JellyfinItemId(p) = "" THEN "returned" ELSE "ia_archived"

\* Mutant: a NotificationType that is not PlaybackStop is handled as ItemAdded.
Route_ItemAddedByDefault(p) ==
    IF p.NotificationType = "PlaybackStop" THEN PlaybackStopEntry(p) ELSE ItemAddedEntry(p)

\* receive_webhook: ItemAdded and PlaybackStop go to their handler, any other
\* NotificationType, "" for a missing one, is answered at once.
Route(p) ==
    IF p.NotificationType = "ItemAdded" THEN ItemAddedEntry(p)
    ELSE IF p.NotificationType = "PlaybackStop" THEN PlaybackStopEntry(p)
    ELSE "returned"

\* json.loads failing is answered 400 ("bad_request"); "webhook_data.get" on
\* a value that is no object raises into "except Exception".
Accept(b) ==
    IF b.Json = "malformed" THEN "bad_request"
    ELSE IF b.Json # "object" THEN "raised"
    ELSE Route(b)

\* The status receive_webhook answers with once the request is done.
Response(w) ==
    CASE pc[w] = "returned" -> 200
      [] pc[w] = "bad_request" -> 400
      [] pc[w] = "raised" -> 500
      [] OTHER -> 0

\* receive_webhook: route the payload by NotificationType.  A worker takes
\* the next event when it is not inside a workflow; the workers being alike,
\* the event goes to w1 whenever w1 is free.
Receive(w, p) ==
    /\ ~Running(w)
    /\ w = "w1" \/ Running("w1")
    /\ received < MaxEvents
    /\ received' = received + 1
    /\ data' = [data EXCEPT ![w] = p]
    /\ Goto(w, Accept(p))
    /\ section_id' = [section_id EXCEPT ![w] = 0]
    /\ todoist_item_id' = [todoist_item_id EXCEPT ![w] = 0]
    /\ attempts' = [attempts EXCEPT ![w] = 0]
    /\ trace' = [trace EXCEPT ![w] = <<>>]
    /\ closed_ok' = [closed_ok EXCEPT ![w] = FALSE]
    /\ UNCHANGED <<sections, tasks, item_mappings, archiveCmds, gocLog, clientCall, store, timeCall, mapCall>>

\* ------------------------------------------------------ handle_item_added

\* "if archived_section:" unarchive and reuse it, "else:" get_or_create_section.
AfterArchivedLookup(r, hit) ==
    IF r = "raise" THEN "raised" ELSE IF hit # 0 THEN "ia_unarchive" ELSE "ia_sections"

\* get_archived_section_by_name: a transport error raises, a non-200 answer
\* returns None, otherwise the first archived section of that name (or None).
IaArchived(w) ==
    /\ pc[w] = "ia_archived"
    /\ \E r \in {"ok", "fail", "raise"} :
        LET hit == IF r = "ok" THEN FirstArchivedByName(sections, data[w].SeriesName) ELSE 0
        IN  /\ Call(w, "get_archived", IF r = "ok" /\ hit = 0 THEN "none" ELSE r)
            /\ section_id' = [section_id EXCEPT ![w] = hit]
            /\ Goto(w, AfterArchivedLookup(r, hit))
    /\ UNCHANGED <<sections, tasks, item_mappings, data, todoist_item_id, closed_ok,
                   attempts, archiveCmds, received, gocLog, clientCall, store, timeCall, mapCall>>

\* Mutant: the result of unarchive_section is not looked at.
AfterUnarchive_Unchecked(r) == IF r = "raise" THEN "raised" ELSE "ia_add_task"

\* "if not unarchive_section(...): return"
AfterUnarchive(r) ==
    IF r = "ok" THEN "ia_add_task" ELSE IF r = "fail" THEN "returned" ELSE "raised"

\* unarchive_section(section_id): False ends the workflow.
IaUnarchive(w) ==
    /\ pc[w] = "ia_unarchive"
    /\ \E r \in {"ok", "fail", "raise"} :
        /\ Call(w, "unarchive", r)
        /\ sections' = IF r = "ok" THEN SetArchived(sections, section_id[w], FALSE) ELSE sections
        /\ archiveCmds' = IF r = "ok" /\ section_id[w] \in DOMAIN archiveCmds
                          THEN [archiveCmds EXCEPT ![section_id[w]] = 0]
                          ELSE archiveCmds
        /\ Goto(w, AfterUnarchive(r))
    /\ UNCHANGED <<tasks, item_mappings, data, section_id, todoist_item_id, closed_ok,
                   attempts, received, gocLog, clientCall, store, timeCall, mapCall>>

\* get_or_create_section, first half: list the sections and match by name.
IaSections(w) ==
    /\ pc[w] = "ia_sections"
    /\ \E r \in {"ok", "raise"} :
        LET hit == IF r = "ok" THEN FirstByName(sections, data[w].SeriesName) ELSE 0
        IN  /\ Call(w, "get_sections", IF r = "ok" /\ hit = 0 THEN "none" ELSE r)
            /\ section_id' = [section_id EXCEPT ![w] = hit]
            /\ Goto(w, IF r = "raise" THEN "raised"
                       ELSE IF hit # 0 THEN "ia_add_task" ELSE "ia_add_section")
    /\ UNCHANGED <<sections, tasks, item_mappings, data, todoist_item_id, closed_ok,
                   attempts, archiveCmds, received, gocLog, clientCall, store, timeCall, mapCall>>

\* Mutant: the remote finds or creates in one step.
IaAddSection_Atomic(w) ==
    /\ pc[w] = "ia_add_section"
    /\ \E r \in {"ok", "fail", "raise"} :
        LET hit == FirstByName(sections, data[w].SeriesName)
        IN  /\ Call(w, "add_section", r)
            /\ sections' = IF r = "ok" /\ hit = 0
                            THEN AddSection(sections, data[w].SeriesName) ELSE sections
            /\ section_id' = [section_id EXCEPT ![w] =
                                 IF r # "ok" THEN 0
                                 ELSE IF hit # 0 THEN hit
                                 ELSE CreatedId(sections, data[w].SeriesName)]
            /\ archiveCmds' = IF r = "ok" /\ hit = 0 THEN Append(archiveCmds, 0) ELSE archiveCmds
            /\ Goto(w, IF r = "ok" THEN "ia_add_task" ELSE IF r = "fail" THEN "returned" ELSE "raised")
    /\ UNCHANGED <<tasks, item_mappings, data, todoist_item_id, closed_ok,
                   attempts, received, gocLog, clientCall, store, timeCall, mapCall>>

\* get_or_create_section, second half: api.add_section.
IaAddSection(w) ==
    /\ pc[w] = "ia_add_section"
    /\ \E r \in {"ok", "fail", "raise"} :
        /\ Call(w, "add_section", r)
        /\ sections' = IF r = "ok" THEN AddSection(sections, data[w].SeriesName) ELSE sections
        /\ section_id' = [section_id EXCEPT ![w] =
                             IF r = "ok" THEN CreatedId(sections, data[w].SeriesName) ELSE 0]
        /\ archiveCmds' = IF r = "ok" THEN Append(archiveCmds, 0) ELSE archiveCmds
        /\ Goto(w, IF r = "ok" THEN "ia_add_task" ELSE IF r = "fail" THEN "returned" ELSE "raised")
    /\ UNCHANGED <<tasks, item_mappings, data, todoist_item_id, closed_ok,
                   attempts, received, gocLog, clientCall, store, timeCall, mapCall>>

\* Mutant: the mapping is saved whether or not the task was created.
AfterAddTask_SaveAnyway(r) == "ia_save"

\* "except Exception: return" and "if task and task.id:" save the mapping.
AfterAddTask(r) == IF r = "ok" THEN "ia_save" ELSE "returned"

\* todoist_api.add_task inside try/except: any error ends the workflow.
IaAddTask(w) ==
    /\ pc[w] = "ia_add_task"
    /\ \E r \in {"ok", "fail"} :
        /\ Call(w, "add_task", r)
        /\ tasks' = IF r = "ok"
                    THEN Append(tasks, NewTask(section_id[w]))
                    ELSE tasks
        /\ todoist_item_id' = [todoist_item_id EXCEPT ![w] = IF r = "ok" THEN Len(tasks) + 1 ELSE 0]
        /\ archiveCmds' = IF r = "ok" /\ section_id[w] \in DOMAIN archiveCmds
                          THEN [archiveCmds EXCEPT ![section_id[w]] = 0]
                          ELSE archiveCmds
        /\ Goto(w, AfterAddTask(r))
    /\ UNCHANGED <<sections, item_mappings, data, section_id, closed_ok,
                   attempts, received, gocLog, clientCall, store, timeCall, mapCall>>

\* Mutant: INSERT OR IGNORE, the row the key has is kept.
save_mapping_KeepExisting(tbl, jellyfin_item_id, tid) ==
    IF tbl[jellyfin_item_id] # NoRow THEN tbl
    ELSE [tbl EXCEPT ![jellyfin_item_id] = [todoist_item_id |-> tid, completed_at |-> FALSE]]

\* Mutant: the row is written as completed.
save_mapping_Completed(tbl, jellyfin_item_id, tid) ==
    [tbl EXCEPT ![jellyfin_item_id] = [todoist_item_id |-> tid, completed_at |-> TRUE]]

\* INSERT OR REPLACE: the row of the key is replaced, completed_at is NULL again.
save_mapping(tbl, jellyfin_item_id, tid) ==
    [tbl EXCEPT ![jellyfin_item_id] = [todoist_item_id |-> tid, completed_at |-> FALSE]]

IaSave(w) ==
    /\ pc[w] = "ia_save"
    /\ \E r \in {"ok", "fail"} :
        /\ Call(w, "save_mapping", r)
        /\ item_mappings' = IF r = "ok"
                            THEN save_mapping(item_mappings, JellyfinItemId(data[w]), todoist_item_id[w])
                            ELSE item_mappings
    /\ Goto(w, "returned")
    /\ UNCHANGED <<sections, tasks, data, section_id, todoist_item_id, closed_ok,
                   attempts, archiveCmds, received, gocLog, clientCall, store, timeCall, mapCall>>

\* --------------------------------------------------- handle_playback_stop

\* get_todoist_item_id: the row's task id, None when there is no row or the
\* query fails.
get_todoist_item_id(tbl, jellyfin_item_id) == tbl[jellyfin_item_id].todoist_item_id

\* Mutant: the workflow goes on without a task id.
AfterLookup_Proceed(tid) == "ps_sections"

\* "if not todoist_item_id: return"
AfterLookup(tid) == IF tid # 0 THEN "ps_sections" ELSE "returned"

PsLookup(w) ==
    /\ pc[w] = "ps_lookup"
    /\ \E r \in {"ok", "fail"} :
        LET tid == IF r = "ok" THEN get_todoist_item_id(item_mappings, JellyfinItemId(data[w])) ELSE 0
        IN  /\ Call(w, "get_mapping", IF r = "ok" /\ tid = 0 THEN "none" ELSE r)
            /\ todoist_item_id' = [todoist_item_id EXCEPT ![w] = tid]
            /\ Goto(w, AfterLookup(tid))
    /\ UNCHANGED <<sections, tasks, item_mappings, data, section_id, closed_ok,
                   attempts, archiveCmds, received, gocLog, clientCall, store, timeCall, mapCall>>

\* Resolve the section by series name before the task is closed; a failed
\* listing is logged and leaves section_id None.
PsSections(w) ==
    /\ pc[w] = "ps_sections"
    /\ \E r \in {"ok", "fail"} :
        LET hit == IF r = "ok" THEN FirstByName(sections, data[w].SeriesName) ELSE 0
        IN  /\ Call(w, "get_sections", IF r = "ok" /\ hit = 0 THEN "none" ELSE r)
            /\ section_id' = [section_id EXCEPT ![w] = hit]
    /\ Goto(w, "ps_complete")
    /\ UNCHANGED <<sections, tasks, item_mappings, data, todoist_item_id, closed_ok,
                   attempts, archiveCmds, received, gocLog, clientCall, store, timeCall, mapCall>>

CloseTask(tsks, tid) ==
    IF tid \in DOMAIN tsks THEN [tsks EXCEPT ![tid].active = FALSE] ELSE tsks

\* Mutant: the result of complete_task is not looked at.
AfterComplete_Unchecked(r) == "ps_mark"

\* "if closed_ok:" mark and confirm, "else:" log the failure.
AfterComplete(r) == IF r = "ok" THEN "ps_mark" ELSE "returned"

\* todoist_api.complete_task inside try/except: an error leaves closed_ok False.
PsComplete(w) ==
    /\ pc[w] = "ps_complete"
    /\ \E r \in {"ok", "fail"} :
        /\ Call(w, "complete_task", r)
        /\ tasks' = IF r = "ok" THEN CloseTask(tasks, todoist_item_id[w]) ELSE tasks
        /\ closed_ok' = [closed_ok EXCEPT ![w] = (r = "ok")]
        /\ Goto(w, AfterComplete(r))
    /\ UNCHANGED <<sections, item_mappings, data, section_id, todoist_item_id,
                   attempts, archiveCmds, received, gocLog, clientCall, store, timeCall, mapCall>>

\* UPDATE ... SET completed_at = CURRENT_TIMESTAMP WHERE jellyfin_item_id = ?
mark_completed(tbl, jellyfin_item_id) ==
    IF tbl[jellyfin_item_id].todoist_item_id # 0
    THEN [tbl EXCEPT ![jellyfin_item_id].completed_at = TRUE]
    ELSE tbl

\* Mutant: the confirmation loop is entered without a resolved section.
AfterMark_Unresolved(sid) == "ps_check"

\* "if section_id:"
AfterMark(sid) == IF sid # 0 THEN "ps_check" ELSE "returned"

\* mark_completed's result is not looked at; the confirmation loop is entered
\* only with a resolved section.
PsMark(w) ==
    /\ pc[w] = "ps_mark"
    /\ \E r \in {"ok", "fail"} :
        /\ Call(w, "mark_completed", r)
        /\ item_mappings' = IF r = "ok"
                            THEN mark_completed(item_mappings, JellyfinItemId(data[w]))
                            ELSE item_mappings
    /\ Goto(w, AfterMark(section_id[w]))
    /\ UNCHANGED <<sections, tasks, data, section_id, todoist_item_id, closed_ok,
                   attempts, archiveCmds, received, gocLog, clientCall, store, timeCall, mapCall>>

\* Mutant: the first read that finds a task gives up.
AfterCheck_AbandonOnTask(r, isEmpty, n) ==
    IF r = "raise" THEN "raised" ELSE IF isEmpty THEN "ps_archive" ELSE "returned"

\* Mutant: the loop makes one read too many.
AfterCheck_OneMore(r, isEmpty, n) ==
    IF r = "raise" THEN "raised"
    ELSE IF isEmpty THEN "ps_archive"
    ELSE IF n + 1 <= MaxChecks THEN "ps_check"
    ELSE "returned"

\* Mutant: "if empty:" is never taken.
AfterCheck_NoArchive(r, isEmpty, n) ==
    IF r = "raise" THEN "raised"
    ELSE IF isEmpty THEN "returned"
    ELSE IF n + 1 < MaxChecks THEN "ps_check"
    ELSE "returned"

\* Mutant: the section is archived when the loop runs out as well.
AfterCheck_ArchiveUnseen(r, isEmpty, n) ==
    IF r = "raise" THEN "raised"
    ELSE IF isEmpty \/ n + 1 >= MaxChecks THEN "ps_archive"
    ELSE "ps_check"

\* The loop control: an empty read breaks out and archives, any other read
\* sleeps and goes round again until range(5) is used up (n reads were made
\* before this one).
AfterCheck(r, isEmpty, n) ==
    IF r = "raise" THEN "raised"
    ELSE IF isEmpty THEN "ps_archive"
    ELSE IF n + 1 < MaxChecks THEN "ps_check"
    ELSE "returned"

\* One iteration of "for _ in range(5)"; get_tasks raising leaves the handler.
PsCheck(w) ==
    /\ pc[w] = "ps_check"
    /\ \E r \in {"ok", "raise"} :
        LET isEmpty == r = "ok" /\ is_section_empty(tasks, section_id[w])
        IN  /\ Call(w, "is_section_empty",
                    IF r = "raise" THEN r ELSE IF isEmpty THEN "empty" ELSE "nonempty")
            /\ attempts' = [attempts EXCEPT ![w] = @ + 1]
            /\ Goto(w, AfterCheck(r, isEmpty, attempts[w]))
    /\ UNCHANGED <<sections, tasks, item_mappings, data, section_id, todoist_item_id,
                   closed_ok, archiveCmds, received, gocLog, clientCall, store, timeCall, mapCall>>

\* archive_section(section_id); the result only chooses the log line.
PsArchive(w) ==
    /\ pc[w] = "ps_archive"
    /\ \E r \in {"ok", "fail", "raise"} :
        /\ Call(w, "archive", r)
        /\ sections' = IF r = "ok" THEN SetArchived(sections, section_id[w], TRUE) ELSE sections
        /\ Goto(w, IF r = "raise" THEN "raised" ELSE "returned")
    /\ archiveCmds' = [archiveCmds EXCEPT ![section_id[w]] = @ + 1]
    /\ UNCHANGED <<tasks, item_mappings, data, todoist_item_id, section_id, closed_ok,
                   attempts, received, gocLog, clientCall, store, timeCall, mapCall>>

\* ------------------------------------------- get_or_create_section, whole

\* todoist_helpers.get_or_create_section run without interleaving: rl and ra
\* are the outcomes of the listing and of the creation request ("fail": the
\* SDK raises).
get_or_create_section(secs, name, rl, ra) ==
    LET hit == FirstByName(secs, name)
    IN  IF rl # "ok" THEN [ret |-> 0, sections |-> secs]
        ELSE IF hit # 0 THEN [ret |-> hit, sections |-> secs]
        ELSE IF ra = "ok" THEN [ret |-> CreatedId(secs, name), sections |-> AddSection(secs, name)]
        ELSE [ret |-> 0, sections |-> secs]

\* TodoistClient.get_or_create_section: get_sections answers [] when its
\* request fails and create_section answers None.
client_get_or_create_section(secs, name, rl, ra) ==
    LET listing == IF rl = "ok" THEN secs ELSE <<>>
        hit == FirstByName(listing, name)
    IN  IF hit # 0 THEN [ret |-> hit, sections |-> secs]
        ELSE IF ra = "ok" THEN [ret |-> CreatedId(secs, name), sections |-> AddSection(secs, name)]
        ELSE [ret |-> 0, sections |-> secs]

GocEntry(impl, name, rl, before, res) ==
    [impl |-> impl, name |-> name, listed |-> (rl = "ok"), ret |-> res.ret,
     before |-> before, after |-> res.sections]

GocHelper(name) ==
    /\ Len(gocLog) < MaxCalls
    /\ \E rl \in {"ok", "fail"}, ra \in {"ok", "fail"} :
        LET res == get_or_create_section(sections, name, rl, ra)
        IN  /\ sections' = res.sections
            /\ gocLog' = Append(gocLog, GocEntry("helper", name, rl, sections, res))
    /\ UNCHANGED <<tasks, item_mappings, pc, data, section_id, todoist_item_id,
                   closed_ok, attempts, trace, archiveCmds, received, clientCall, store, timeCall, mapCall>>

GocClient(name) ==
    /\ Len(gocLog) < MaxCalls
    /\ \E rl \in {"ok", "fail"}, ra \in {"ok", "fail"} :
        LET res == client_get_or_create_section(sections, name, rl, ra)
        IN  /\ sections' = res.sections
            /\ gocLog' = Append(gocLog, GocEntry("client", name, rl, sections, res))
    /\ UNCHANGED <<tasks, item_mappings, pc, data, section_id, todoist_item_id,
                   closed_ok, attempts, trace, archiveCmds, received, clientCall, store, timeCall, mapCall>>

\* ---------------------------------------------------------- TodoistClient

\* requests raise_for_status: an answer of 400..599 raises HTTPError; no
\* answer at all (status 0 here) raises ConnectionError.  Both are
\* RequestException.
RaisesRequestException(status) == status = 0 \/ (400 <= status /\ status < 600)

\* TodoistClient.complete_task: True unless the request raised.
client_complete_task(status) == ~RaisesRequestException(status)

\* TodoistClient.get_tasks: the active tasks of the project, [] when the
\* request fails.
get_tasks(tsks, rt) == IF rt = "ok" THEN {t \in DOMAIN tsks : tsks[t].active} ELSE {}

\* _parse_created_at: the timestamp of an ISO8601 string, 0.0 otherwise.
parse_created_at(created_at) == IF created_at.iso THEN created_at.seconds ELSE 0

has_task_by_section(tsks, listing, sid) == \E t \in listing : tsks[t].section_id = sid

\* latest_by_section.get(sid, 0.0): the largest created_at of the listed
\* tasks of the section that is above 0.0.
latest_by_section(tsks, listing, sid) ==
    LET stamps == {parse_created_at(tsks[t].created_at) :
                      t \in {u \in listing : tsks[u].section_id = sid}} \cup {0}
    IN  CHOOSE m \in stamps : \A x \in stamps : x <= m

\* Mutant: the front section gets no boost.
front_rank_Ignored(front_section_id, sid) == 0

\* "-1 if (front_section_id and sid == front_section_id) else 0"
front_rank(front_section_id, sid) ==
    IF front_section_id # 0 /\ sid = front_section_id THEN -1 ELSE 0

\* key=lambda t: (t[0], t[1], -t[2])
SortKey(tsks, listing, front_section_id, sid) ==
    <<front_rank(front_section_id, sid),
      IF has_task_by_section(tsks, listing, sid) THEN 0 ELSE 1,
      0 - latest_by_section(tsks, listing, sid)>>

KeyLess(a, b) ==
    \/ a[1] < b[1]
    \/ a[1] = b[1] /\ a[2] < b[2]
    \/ a[1] = b[1] /\ a[2] = b[2] /\ a[3] < b[3]

\* Mutant: a sort that is not stable, sections with equal keys come out in
\* the reverse of their current ranks.
SortedIndex_Unstable(keys, sid) ==
    1 + Cardinality({x \in DOMAIN keys :
            \/ KeyLess(keys[x], keys[sid])
            \/ keys[x] = keys[sid] /\ sections[x].order > sections[sid].order})

\* sortable.sort(...) is stable and enumerate(sortable, start=1) numbers the
\* result: the index of a section is one more than the number of sections
\* with a smaller key, or with an equal key and earlier in the listing.
SortedIndex(keys, sid) ==
    1 + Cardinality({x \in DOMAIN keys :
            \/ KeyLess(keys[x], keys[sid])
            \/ keys[x] = keys[sid] /\ x < sid})

\* Mutant: an update is issued for every section.
NeedsUpdate_Always(secs, index, sid) == TRUE

\* "if current_order != index"
NeedsUpdate(secs, index, sid) == secs[sid].order # index[sid]

\* Mutant: the loop over the sorted sections ends at the first update that
\* fails.
reorder_sections_StopAtFailure(secs, tsks, front_section_id, rl, rt, failed) ==
    IF rl # "ok" \/ secs = <<>>
    THEN [sections |-> secs, issued |-> {}, ret |-> FALSE]
    ELSE LET listing == get_tasks(tsks, rt)
             keys == [sid \in DOMAIN secs |-> SortKey(tsks, listing, front_section_id, sid)]
             index == [sid \in DOMAIN secs |-> SortedIndex(keys, sid)]
             differing == {sid \in DOMAIN secs : NeedsUpdate(secs, index, sid)}
             issued == {sid \in differing :
                           \A f \in failed \cap differing : index[sid] <= index[f]}
         IN  [sections |-> [sid \in DOMAIN secs |->
                              IF sid \in issued \ failed
                              THEN [secs[sid] EXCEPT !.order = index[sid]]
                              ELSE secs[sid]],
              issued |-> issued,
              ret |-> issued \ failed # {}]

\* TodoistClient.reorder_sections: rl and rt are the outcomes of the two
\* listings, failed the sections whose update_section request fails.
reorder_sections(secs, tsks, front_section_id, rl, rt, failed) ==
    IF rl # "ok" \/ secs = <<>>
    THEN [sections |-> secs, issued |-> {}, ret |-> FALSE]
    ELSE LET listing == get_tasks(tsks, rt)
             keys == [sid \in DOMAIN secs |-> SortKey(tsks, listing, front_section_id, sid)]
             index == [sid \in DOMAIN secs |-> SortedIndex(keys, sid)]
             issued == {sid \in DOMAIN secs : NeedsUpdate(secs, index, sid)}
         IN  [sections |-> [sid \in DOMAIN secs |->
                              IF sid \in issued \ failed
                              THEN [secs[sid] EXCEPT !.order = index[sid]]
                              ELSE secs[sid]],
              issued |-> issued,
              ret |-> issued \ failed # {}]

\* TodoistClient.add_task: the remote stamps the task with its creation time.
ClientAddTask(sid) ==
    /\ Len(tasks) < MaxTasks
    /\ tasks' = Append(tasks, [section_id |-> sid, active |-> TRUE,
                               created_at |-> [iso |-> TRUE, seconds |-> Len(tasks) + 1]])
    /\ clientCall' = [NoCall EXCEPT !.op = "add_task", !.arg = sid, !.ret = TRUE,
                          !.faults = clientCall.faults]
    /\ UNCHANGED <<sections, item_mappings, pc, data, section_id, todoist_item_id,
                   closed_ok, attempts, trace, archiveCmds, received, gocLog, store, timeCall, mapCall>>

\* TodoistClient.complete_task: the remote closes the task (204), refuses
\* (400 for a task that is closed already, 500) or does not answer (0).
ClientCompleteTask(tid) ==
    /\ tid \in DOMAIN tasks
    /\ \E status \in (IF tasks[tid].active THEN {204, 500, 0} ELSE {204, 400}) :
        /\ tasks' = IF status = 204 THEN CloseTask(tasks, tid) ELSE tasks
        /\ clientCall' = [NoCall EXCEPT !.op = "complete_task", !.arg = tid,
                              !.status = status, !.ret = client_complete_task(status),
                              !.faults = clientCall.faults]
    /\ UNCHANGED <<sections, item_mappings, pc, data, section_id, todoist_item_id,
                   closed_ok, attempts, trace, archiveCmds, received, gocLog, store, timeCall, mapCall>>

\* TodoistClient.is_section_empty, the loop over the list get_tasks returned:
\* False at the first listed task of the section that is not completed.
client_is_section_empty(tsks, listing, sid) ==
    ~\E t \in listing : tsks[t].section_id = sid /\ tsks[t].active

\* One call of TodoistClient.is_section_empty; the listing of the tasks
\* succeeds or fails.
ClientIsSectionEmpty(sid) ==
    /\ \E rt \in {"ok", "fail"} :
        clientCall' = [NoCall EXCEPT !.op = "is_section_empty", !.arg = sid,
                           !.tasks_read = (rt = "ok"),
                           !.ret = client_is_section_empty(tasks, get_tasks(tasks, rt), sid),
                           !.faults = clientCall.faults]
    /\ UNCHANGED <<sections, tasks, item_mappings, pc, data, section_id, todoist_item_id,
                   closed_ok, attempts, trace, archiveCmds, received, gocLog, store, timeCall, mapCall>>

\* The sets of sections whose update may fail in a call that issues the
\* updates `issued`: none, or one of them if no update has failed before.
FailedUpdates(issued) ==
    {{}} \cup (IF clientCall.faults = 0 THEN {{sid} : sid \in issued} ELSE {})

\* A call of reorder_sections with this front section and these outcomes of
\* its listings repeats the last call: that one was a reorder_sections with
\* the same front section whose listings had the same outcomes and whose
\* updates all succeeded, and nothing was called in between.
Repeats(front_section_id, rl, rt) ==
    /\ clientCall.op = "reorder_sections"
    /\ clientCall.arg = front_section_id
    /\ clientCall.listed /\ rl = "ok"
    /\ clientCall.tasks_read = (rt = "ok")
    /\ clientCall.failed = {}

\* One call of reorder_sections.  The listing of the sections fails, or it
\* succeeds and the listing of the tasks succeeds or fails.
ClientReorder(front_section_id) ==
    /\ \E rl \in {"ok", "fail"} :
       \E rt \in (IF rl = "ok" THEN {"ok", "fail"} ELSE {"fail"}) :
       \E failed \in FailedUpdates(
              reorder_sections(sections, tasks, front_section_id, rl, rt, {}).issued) :
        LET res == reorder_sections(sections, tasks, front_section_id, rl, rt, failed)
        IN  /\ sections' = res.sections
            /\ clientCall' = [NoCall EXCEPT !.op = "reorder_sections",
                                  !.arg = front_section_id,
                                  !.listed = (rl = "ok"),
                                  !.tasks_read = (rl = "ok" /\ rt = "ok"),
                                  !.issued = res.issued,
                                  !.failed = res.issued \cap failed,
                                  !.ret = res.ret,
                                  !.faults = clientCall.faults + Cardinality(failed),
                                  !.repeat = Repeats(front_section_id, rl, rt)]
    /\ UNCHANGED <<tasks, item_mappings, pc, data, section_id, todoist_item_id,
                   closed_ok, attempts, trace, archiveCmds, received, gocLog, store, timeCall, mapCall>>

\* ------------------------------------------------------------- database

RowsOf(rows, jellyfin_item_id) == {r \in rows : r.jellyfin_item_id = jellyfin_item_id}

\* Mutant: a plain INSERT on a table without the UNIQUE constraint.
insert_or_replace_Append(rows, seq, jellyfin_item_id, tid) ==
    rows \cup {[id |-> seq + 1, jellyfin_item_id |-> jellyfin_item_id,
                todoist_item_id |-> tid, completed_at |-> FALSE]}

\* Mutant: an upsert that writes the task id into the row the key has.
insert_or_replace_Upsert(rows, seq, jellyfin_item_id, tid) ==
    IF RowsOf(rows, jellyfin_item_id) = {}
    THEN rows \cup {[id |-> seq + 1, jellyfin_item_id |-> jellyfin_item_id,
                     todoist_item_id |-> tid, completed_at |-> FALSE]}
    ELSE {IF r.jellyfin_item_id = jellyfin_item_id THEN [r EXCEPT !.todoist_item_id = tid] ELSE r :
              r \in rows}

\* "INSERT OR REPLACE INTO item_mappings (jellyfin_item_id, todoist_item_id)":
\* jellyfin_item_id is UNIQUE, so the rows that hold the key are deleted; the
\* new row gets the next AUTOINCREMENT id and the default completed_at NULL.
insert_or_replace(rows, seq, jellyfin_item_id, tid) ==
    (rows \ RowsOf(rows, jellyfin_item_id))
        \cup {[id |-> seq + 1, jellyfin_item_id |-> jellyfin_item_id,
                todoist_item_id |-> tid, completed_at |-> FALSE]}

\* "SELECT todoist_item_id ... WHERE jellyfin_item_id = ?" and fetchone():
\* the column of the first matching row, None (0) without one.
select_todoist_item_id(rows, jellyfin_item_id) ==
    LET hits == RowsOf(rows, jellyfin_item_id)
    IN  IF hits = {} THEN 0
        ELSE (CHOOSE r \in hits : \A q \in hits : r.id <= q.id).todoist_item_id

\* Mutant: the rows of the key are deleted when the item is completed.
update_completed_at_Delete(rows, jellyfin_item_id) == rows \ RowsOf(rows, jellyfin_item_id)

\* Mutant: the UPDATE without its WHERE clause.
update_completed_at_EveryRow(rows, jellyfin_item_id) ==
    {[r EXCEPT !.completed_at = TRUE] : r \in rows}

\* "UPDATE item_mappings SET completed_at = CURRENT_TIMESTAMP WHERE
\* jellyfin_item_id = ?"
update_completed_at(rows, jellyfin_item_id) ==
    {IF r.jellyfin_item_id = jellyfin_item_id THEN [r EXCEPT !.completed_at = TRUE] ELSE r :
         r \in rows}

\* The remote task ids SpecStore saves.
TaskIds == {1, 2}

\* database.save_mapping: True, or False when sqlite3 raises and nothing is
\* committed.
StoreSave(jellyfin_item_id, tid) ==
    /\ store.seq < MaxSaves
    /\ \E r \in {"ok", "error"} :
        store' = IF r = "ok"
                 THEN [rows  |-> insert_or_replace(store.rows, store.seq, jellyfin_item_id, tid),
                       seq   |-> store.seq + 1,
                       saved |-> [store.saved EXCEPT ![jellyfin_item_id] = tid],
                       op |-> "save_mapping", key |-> jellyfin_item_id, ret |-> 1,
                       replaced |-> RowsOf(store.rows, jellyfin_item_id)]
                 ELSE [store EXCEPT !.op = "save_mapping", !.key = jellyfin_item_id,
                                    !.ret = 0, !.replaced = {}]
    /\ UNCHANGED <<sections, tasks, item_mappings, pc, data, section_id, todoist_item_id,
                   closed_ok, attempts, trace, archiveCmds, received, gocLog, clientCall, timeCall, mapCall>>

\* database.get_todoist_item_id: the id found, None (0) when no row matches;
\* when sqlite3 raises the call returns None as well and is recorded as
\* "get_todoist_item_id failed".
StoreGet(jellyfin_item_id) ==
    /\ \E r \in {"ok", "error"} :
        store' = IF r = "ok"
                 THEN [store EXCEPT !.op = "get_todoist_item_id", !.key = jellyfin_item_id,
                                    !.ret = select_todoist_item_id(store.rows, jellyfin_item_id),
                                    !.replaced = {}]
                 ELSE [store EXCEPT !.op = "get_todoist_item_id failed",
                                    !.key = jellyfin_item_id, !.ret = 0, !.replaced = {}]
    /\ UNCHANGED <<sections, tasks, item_mappings, pc, data, section_id, todoist_item_id,
                   closed_ok, attempts, trace, archiveCmds, received, gocLog, clientCall, timeCall, mapCall>>

\* database.mark_completed: True iff a row was updated.
StoreMark(jellyfin_item_id) ==
    /\ \E r \in {"ok", "error"} :
        store' = IF r = "ok"
                 THEN [store EXCEPT !.rows = update_completed_at(store.rows, jellyfin_item_id),
                                    !.op = "mark_completed", !.key = jellyfin_item_id,
                                    !.ret = IF RowsOf(store.rows, jellyfin_item_id) # {}
                                            THEN 1 ELSE 0,
                                    !.replaced = {}]
                 ELSE [store EXCEPT !.op = "mark_completed", !.key = jellyfin_item_id,
                                    !.ret = 0, !.replaced = {}]
    /\ UNCHANGED <<sections, tasks, item_mappings, pc, data, section_id, todoist_item_id,
                   closed_ok, attempts, trace, archiveCmds, received, gocLog, clientCall, timeCall, mapCall>>

\* ------------------------------------------------ map_legacy_task_id_to_v1

\* The ids the function is called with: empty, decimal with and without a
\* leading zero, and not decimal.
LegacyIds == {<<>>, <<"7">>, <<"0", "7">>, <<"a">>, <<"7", "a">>}

\* "not legacy_id.isdigit()" holds of the empty string as well.
isdigit(s) == s # <<>> /\ \A i \in DOMAIN s : DigitValue(s[i]) # None

\* The lists of entries an answer holds.  An entry carries an old id, as a
\* JSON number or a string, and a new id, 0 for an entry that carries none.
Mappings ==
    LET OldIds == {[num |-> TRUE, value |-> 7], [num |-> FALSE, value |-> <<"7">>],
                   [num |-> FALSE, value |-> <<"8">>]}
        NewIds == {0, 1, 2}
    IN  UNION {[1..n -> [old_id : OldIds, new_id : NewIds]] : n \in 0..MaxMappings}

\* str(m.get("old_id") or m.get("legacy_id") or "")
OldIdStr(m) == IF m.old_id.num THEN Decimal(m.old_id.value) ELSE m.old_id.value

\* Mutant: the old id is compared with the input as a number.
first_new_id_ByNumber(mappings, legacy_id, n) ==
    LET OldIdInt(m) == IF m.old_id.num THEN m.old_id.value
                       ELSE DecimalValue(m.old_id.value, Len(m.old_id.value))
        hits == {i \in 1..n :
                    /\ OldIdInt(mappings[i]) = DecimalValue(legacy_id, Len(legacy_id))
                    /\ mappings[i].new_id # 0}
    IN  IF hits = {} THEN 0 ELSE mappings[CHOOSE i \in hits : \A j \in hits : i <= j].new_id

\* "for m in mappings: ... if old_id == legacy_id and new_id: return
\* str(new_id)", over the first n entries: the new id returned, 0 when the
\* loop ends without a return.
RECURSIVE first_new_id(_, _, _)
first_new_id(mappings, legacy_id, n) ==
    IF n = 0 THEN 0
    ELSE LET before == first_new_id(mappings, legacy_id, n - 1)
         IN  IF before # 0 THEN before
             ELSE IF OldIdStr(mappings[n]) = legacy_id /\ mappings[n].new_id # 0
                  THEN mappings[n].new_id
                  ELSE 0

\* The resource-type labels, in the order of the for loop.
ResourceTypes == <<"task", "item", "items", "tasks">>

\* The call and its first statement: None without a request for an id that
\* is empty or not made of digits.
MapLegacy(legacy_id) ==
    /\ mapCall.op = "none"
    /\ mapCall' = [NoMap EXCEPT !.op = IF isdigit(legacy_id) THEN "running" ELSE "returned",
                                !.legacy_id = legacy_id]
    /\ UNCHANGED <<sections, tasks, item_mappings, pc, data, section_id, todoist_item_id,
                   closed_ok, attempts, trace, archiveCmds, received, gocLog, clientCall,
                   store, timeCall>>

\* One iteration of the loop over the labels: the request is answered with
\* a status other than 200 (500), raises (0), or is answered with 200 and a
\* list of entries.
MapPost(status) ==
    /\ mapCall.op = "running"
    /\ \E mappings \in (IF status = 200 THEN Mappings ELSE {<<>>}) :
        LET resource_type == ResourceTypes[Len(mapCall.requests) + 1]
            ids == <<DecimalValue(mapCall.legacy_id, Len(mapCall.legacy_id))>>
            new_id == IF status = 200
                      THEN first_new_id(mappings, mapCall.legacy_id, Len(mappings))
                      ELSE 0
        IN  mapCall' =
                [mapCall EXCEPT
                    !.requests = Append(@, [resource_type |-> resource_type, ids |-> ids]),
                    !.response = [status |-> status, mappings |-> mappings],
                    !.ret = new_id,
                    !.op = IF new_id # 0 \/ Len(mapCall.requests) + 1 = Len(ResourceTypes)
                           THEN "returned" ELSE "running"]
    /\ UNCHANGED <<sections, tasks, item_mappings, pc, data, section_id, todoist_item_id,
                   closed_ok, attempts, trace, archiveCmds, received, gocLog, clientCall,
                   store, timeCall>>

\* ----------------------------------------------------------------- specs

\* What the project and the table hold when the service starts: nothing, or
\* what earlier events left behind.  Started: ItemAdded for e1.  Watching:
\* ItemAdded for e1 and e2 of series A.  Archived: ItemAdded and a finished
\* PlaybackStop for e1.
Fresh ==
    [sections |-> <<>>, tasks |-> <<>>, item_mappings |-> [i \in Items |-> NoRow],
     archiveCmds |-> <<>>]

Started ==
    [sections |-> <<[name |-> "A", is_archived |-> FALSE]>>,
     tasks |-> <<[section_id |-> 1, active |-> TRUE]>>,
     item_mappings |-> [i \in Items |->
         IF i = "e1" THEN [todoist_item_id |-> 1, completed_at |-> FALSE] ELSE NoRow],
     archiveCmds |-> <<0>>]

Watching ==
    [sections |-> <<[name |-> "A", is_archived |-> FALSE]>>,
     tasks |-> <<[section_id |-> 1, active |-> TRUE], [section_id |-> 1, active |-> TRUE]>>,
     item_mappings |-> [i \in Items |->
         IF i = "e1" THEN [todoist_item_id |-> 1, completed_at |-> FALSE]
         ELSE IF i = "e2" THEN [todoist_item_id |-> 2, completed_at |-> FALSE]
         ELSE NoRow],
     archiveCmds |-> <<0>>]

Archived ==
    [sections |-> <<[name |-> "A", is_archived |-> TRUE]>>,
     tasks |-> <<[section_id |-> 1, active |-> FALSE]>>,
     item_mappings |-> [i \in Items |->
         IF i = "e1" THEN [todoist_item_id |-> 1, completed_at |-> TRUE] ELSE NoRow],
     archiveCmds |-> <<1>>]

\* Started, and a task the user keeps in the project outside every section.
Mixed ==
    [sections |-> <<[name |-> "A", is_archived |-> FALSE]>>,
     tasks |-> <<[section_id |-> 1, active |-> TRUE], [section_id |-> 0, active |-> TRUE]>>,
     item_mappings |-> [i \in Items |->
         IF i = "e1" THEN [todoist_item_id |-> 1, completed_at |-> FALSE] ELSE NoRow],
     archiveCmds |-> <<0>>]

Persisted == {Fresh, Started, Watching, Archived, Mixed}

Init ==
    /\ \E s \in Persisted :
        /\ sections = s.sections
        /\ tasks = s.tasks
        /\ item_mappings = s.item_mappings
        /\ archiveCmds = s.archiveCmds
    /\ pc = [w \in Workers |-> "idle"]
    /\ data = [w \in Workers |-> NoPayload]
    /\ section_id = [w \in Workers |-> 0]
    /\ todoist_item_id = [w \in Workers |-> 0]
    /\ closed_ok = [w \in Workers |-> FALSE]
    /\ attempts = [w \in Workers |-> 0]
    /\ trace = [w \in Workers |-> <<>>]
    /\ received = 0
    /\ gocLog = <<>>
    /\ clientCall = NoCall
    /\ store = NoStore
    /\ timeCall = NoTime
    /\ mapCall = NoMap

Step(w) ==
    \/ \E p \in Payloads : Receive(w, p)
    \/ IaArchived(w)
    \/ IaUnarchive(w)
    \/ IaSections(w)
    \/ IaAddSection(w)
    \/ IaAddTask(w)
    \/ IaSave(w)
    \/ PsLookup(w)
    \/ PsSections(w)
    \/ PsComplete(w)
    \/ PsMark(w)
    \/ PsCheck(w)
    \/ PsArchive(w)

Next == \E w \in Workers : Step(w)

Spec == Init /\ [][Next]_vars

\* One server process: the next event is handled when the last workflow ended.
ReceiveSerial(w, p) == (\A v \in Workers : ~Running(v)) /\ Receive(w, p)

StepSerial(w) ==
    \/ \E p \in Payloads : ReceiveSerial(w, p)
    \/ IaArchived(w)
    \/ IaUnarchive(w)
    \/ IaSections(w)
    \/ IaAddSection(w)
    \/ IaAddTask(w)
    \/ IaSave(w)
    \/ PsLookup(w)
    \/ PsSections(w)
    \/ PsComplete(w)
    \/ PsMark(w)
    \/ PsCheck(w)
    \/ PsArchive(w)

NextSerial == \E w \in Workers : StepSerial(w)

SpecSerial == Init /\ [][NextSerial]_vars

\* A workflow that is inside a call goes on when the call returns.
Work(w) ==
    \/ IaArchived(w)
    \/ IaUnarchive(w)
    \/ IaSections(w)
    \/ IaAddSection(w)
    \/ IaAddTask(w)
    \/ IaSave(w)
    \/ PsLookup(w)
    \/ PsSections(w)
    \/ PsComplete(w)
    \/ PsMark(w)
    \/ PsCheck(w)
    \/ PsArchive(w)

SpecFair == Spec /\ \A w \in Workers : WF_vars(Work(w))

\* One server process answering one request, whatever its body.
ReceiveBody == received = 0 /\ \E b \in Bodies : Receive("w1", b)

InitWebhook ==
    /\ Init
    /\ \E s \in {Started, Archived} :
        sections = s.sections /\ tasks = s.tasks /\ item_mappings = s.item_mappings

NextWebhook == ReceiveBody \/ Work("w1")

SpecWebhook == InitWebhook /\ [][NextWebhook]_vars

\* TodoistClient used on a project of three sections, as test_reorder.py does:
\* tasks are added to A and B and completed, C stays empty, sections are
\* reordered.
ClientSections ==
    <<[name |-> "A", is_archived |-> FALSE, order |-> 1],
      [name |-> "B", is_archived |-> FALSE, order |-> 2],
      [name |-> "C", is_archived |-> FALSE, order |-> 3]>>

TaskSections == {s \in DOMAIN ClientSections : ClientSections[s].name \in {"A", "B"}}

InitClient ==
    /\ sections = ClientSections
    /\ tasks = <<>>
    /\ item_mappings = [i \in Items |-> NoRow]
    /\ archiveCmds = <<>>
    /\ pc = [w \in Workers |-> "idle"]
    /\ data = [w \in Workers |-> NoPayload]
    /\ section_id = [w \in Workers |-> 0]
    /\ todoist_item_id = [w \in Workers |-> 0]
    /\ closed_ok = [w \in Workers |-> FALSE]
    /\ attempts = [w \in Workers |-> 0]
    /\ trace = [w \in Workers |-> <<>>]
    /\ received = 0
    /\ gocLog = <<>>
    /\ clientCall = NoCall
    /\ store = NoStore
    /\ timeCall = NoTime
    /\ mapCall = NoMap

NextClient ==
    \/ \E sid \in TaskSections : ClientAddTask(sid)
    \/ \E tid \in 1..MaxTasks : ClientCompleteTask(tid)
    \/ \E front_section_id \in {0} \cup DOMAIN ClientSections : ClientReorder(front_section_id)
    \/ \E sid \in DOMAIN ClientSections : ClientIsSectionEmpty(sid)

SpecClient == InitClient /\ [][NextClient]_vars

\* reorder_sections called again and again on a project whose sections are
\* ranked in any order and of which A and B hold up to MaxHeld active tasks,
\* created at the same or at different times or stamped with no ISO8601 time.
Stamps == {[iso |-> FALSE, seconds |-> 0]} \cup {[iso |-> TRUE, seconds |-> n] : n \in 1..MaxHeld}

HeldTasks ==
    UNION {[1..n -> [section_id : TaskSections, active : {TRUE}, created_at : Stamps]] :
               n \in 0..MaxHeld}

Rankings ==
    {r \in [DOMAIN ClientSections -> 1..Len(ClientSections)] :
         \A x, y \in DOMAIN ClientSections : x # y => r[x] # r[y]}

InitReorder ==
    /\ \E r \in Rankings :
           sections = [sid \in DOMAIN ClientSections |->
                          [ClientSections[sid] EXCEPT !.order = r[sid]]]
    /\ tasks \in HeldTasks
    /\ item_mappings = [i \in Items |-> NoRow]
    /\ archiveCmds = <<>>
    /\ pc = [w \in Workers |-> "idle"]
    /\ data = [w \in Workers |-> NoPayload]
    /\ section_id = [w \in Workers |-> 0]
    /\ todoist_item_id = [w \in Workers |-> 0]
    /\ closed_ok = [w \in Workers |-> FALSE]
    /\ attempts = [w \in Workers |-> 0]
    /\ trace = [w \in Workers |-> <<>>]
    /\ received = 0
    /\ gocLog = <<>>
    /\ clientCall = NoCall
    /\ store = NoStore
    /\ timeCall = NoTime
    /\ mapCall = NoMap

NextReorder ==
    \E front_section_id \in {0} \cup DOMAIN ClientSections : ClientReorder(front_section_id)

SpecReorder == InitReorder /\ [][NextReorder]_vars

\* parse_time_string called once, on a rendered duration or on a loose string.
ParseRenderedHMS == timeCall.op = "none" /\ \E seconds \in 0..MaxSeconds : ParseHMS(seconds)

ParseRenderedMS == timeCall.op = "none" /\ \E seconds \in 0..MaxSeconds : ParseMS(seconds)

ParseString == timeCall.op = "none" /\ \E time_str \in LooseStrings : ParseLoose(time_str)

NextTime == ParseRenderedHMS \/ ParseRenderedMS \/ ParseString

SpecTime == InitClient /\ [][NextTime]_vars

\* The functions of database.py called in any order on a table that starts
\* empty.
NextStore ==
    \/ \E i \in Items, tid \in TaskIds : StoreSave(i, tid)
    \/ \E i \in Items : StoreGet(i)
    \/ \E i \in Items : StoreMark(i)

SpecStore == InitClient /\ [][NextStore]_vars

\* map_legacy_task_id_to_v1 called once with any of the ids, the endpoint
\* answering each request in any way.
NextLegacy ==
    \/ \E legacy_id \in LegacyIds : MapLegacy(legacy_id)
    \/ \E status \in {200, 500, 0} : MapPost(status)

SpecLegacy == InitClient /\ [][NextLegacy]_vars

\* get_or_create_section called in sequence on a project that holds up to two
\* sections, archived or not.
SectionRecords == [name : Keys, is_archived : BOOLEAN]

InitGoc ==
    /\ sections \in {<<>>} \cup {<<a>> : a \in SectionRecords}
                           \cup {<<a, b>> : a \in SectionRecords, b \in SectionRecords}
    /\ tasks = <<>>
    /\ item_mappings = [i \in Items |-> NoRow]
    /\ archiveCmds = <<>>
    /\ pc = [w \in Workers |-> "idle"]
    /\ data = [w \in Workers |-> NoPayload]
    /\ section_id = [w \in Workers |-> 0]
    /\ todoist_item_id = [w \in Workers |-> 0]
    /\ closed_ok = [w \in Workers |-> FALSE]
    /\ attempts = [w \in Workers |-> 0]
    /\ trace = [w \in Workers |-> <<>>]
    /\ received = 0
    /\ gocLog = <<>>
    /\ clientCall = NoCall
    /\ store = NoStore
    /\ timeCall = NoTime
    /\ mapCall = NoMap

NextGoc == \E name \in Keys : GocHelper(name) \/ GocClient(name)

SpecGoc == InitGoc /\ [][NextGoc]_vars

\* ----------------------------------------------------------- the claims

Entry(op, r) == [op |-> op, r |-> r]

Made(w, op, r) == \E i \in DOMAIN trace[w] : trace[w][i] = Entry(op, r)

Positions(w, op) == {i \in DOMAIN trace[w] : trace[w][i].op = op}

Called(w, op) == Positions(w, op) # {}

IsItemAdded(w) == data[w].NotificationType = "ItemAdded"

IsPlaybackStop(w) == data[w].NotificationType = "PlaybackStop"

SectionsNamed(name) == {s \in DOMAIN sections : sections[s].name = name}

TasksIn(sid) == {t \in DOMAIN tasks : tasks[t].section_id = sid}

ActiveTasksIn(sid) == {t \in TasksIn(sid) : tasks[t].active}

\* The calls of an ItemAdded workflow that found no section of its series,
\* archived or not, and whose calls all succeeded.
FirstOfSeries ==
    <<Entry("get_archived", "none"), Entry("get_sections", "none"),
      Entry("add_section", "ok"), Entry("add_task", "ok"), Entry("save_mapping", "ok")>>

CreatedFirstOfSeries(w) ==
    IsItemAdded(w) /\ pc[w] = "returned" /\ trace[w] = FirstOfSeries

\* C1: an ItemAdded event that runs alone, finds no section of its series
\* (neither listed nor archived) and whose calls all succeed, ends with exactly
\* one section of that name, that section holding exactly one task, which is
\* active and is the one it created, and with the row of its item id mapping
\* to that task, not completed.
C1_ItemAddedCreatesOneSectionTaskMapping ==
    \A w \in Workers : CreatedFirstOfSeries(w) =>
        /\ SectionsNamed(data[w].SeriesName) = {section_id[w]}
        /\ ~sections[section_id[w]].is_archived
        /\ TasksIn(section_id[w]) = {todoist_item_id[w]}
        /\ tasks[todoist_item_id[w]].active
        /\ item_mappings[JellyfinItemId(data[w])] =
               [todoist_item_id |-> todoist_item_id[w], completed_at |-> FALSE]

\* C1 witness: such a workflow ended in a project that holds another series too.
C1_Witness ==
    \E w \in Workers :
        /\ CreatedFirstOfSeries(w)
        /\ Len(sections) = 2
        /\ Len(tasks) >= 2

PlaybackStopOrder(w) ==
    LET c == Positions(w, "complete_task")
        m == Positions(w, "mark_completed")
        k == Positions(w, "is_section_empty")
        a == Positions(w, "archive")
    IN  /\ Cardinality(c) <= 1 /\ Cardinality(m) <= 1
        /\ \A i \in m : \E j \in c : j < i /\ trace[w][j].r = "ok"
        /\ \A i \in k : \E j \in m : j < i
        /\ \A i \in a : (\E j \in k : j < i) /\ (\E j \in m : j < i)
        /\ Made(w, "complete_task", "fail") => m \cup k \cup a = {}
        /\ closed_ok[w] = Made(w, "complete_task", "ok")

\* C2: in a playback-stop workflow complete_task comes first, then
\* mark_completed, then the emptiness checks and the archive command; the row
\* is marked and an archive is attempted only after complete_task succeeded
\* in that workflow, and after a failed complete_task neither is done.
C2_CompleteThenMarkThenConfirm ==
    /\ [](\A w \in Workers : IsPlaybackStop(w) => PlaybackStopOrder(w))
    /\ [][
            \A i \in Items :
                (~item_mappings[i].completed_at /\ item_mappings'[i].completed_at) =>
                    \E w \in Workers :
                        /\ IsPlaybackStop(w) /\ JellyfinItemId(data[w]) = i
                        /\ pc[w] = "ps_mark" /\ closed_ok[w]
                        /\ Made(w, "complete_task", "ok")]_vars

\* C2 witness: a workflow that completed, marked, checked and archived, with
\* the row marked and the section archived.
C2_Witness ==
    \E w \in Workers :
        /\ IsPlaybackStop(w) /\ pc[w] = "returned"
        /\ trace[w] = <<Entry("get_mapping", "ok"), Entry("get_sections", "ok"),
                        Entry("complete_task", "ok"), Entry("mark_completed", "ok"),
                        Entry("is_section_empty", "nonempty"),
                        Entry("is_section_empty", "empty"), Entry("archive", "ok")>>
        /\ item_mappings[JellyfinItemId(data[w])].completed_at
        /\ sections[section_id[w]].is_archived

\* C3 (as claimed): a playback-stop workflow issues its archive command only
\* while the section holds no active task, so a section that got a task from
\* an item-added workflow after the last task was completed is not archived.
C3_RegainedSectionNotArchived ==
    [][\A w \in Workers :
          (pc[w] = "ps_archive" /\ pc'[w] # "ps_archive") =>
              ActiveTasksIn(section_id[w]) = {}]_vars

\* C4 (as claimed): at most one archive command is issued for a section while
\* it stays empty, over all workflows.
C4_AtMostOneArchiveCommand == \A s \in DOMAIN archiveCmds : archiveCmds[s] <= 1

\* C4 (amended): every playback-stop workflow issues at most one archive
\* command, and one that read its section as empty issues exactly one, right
\* after that read; the bound is per workflow, not per section.
C4_OneArchivePerConfirmingWorkflow ==
    \A w \in Workers : IsPlaybackStop(w) =>
        LET a == Positions(w, "archive")
        IN  /\ Cardinality(a) <= 1
            /\ pc[w] = "ps_archive" => a = {} /\ trace[w][Len(trace[w])] = Entry("is_section_empty", "empty")
            /\ (Made(w, "is_section_empty", "empty") /\ pc[w] # "ps_archive") =>
                   /\ Cardinality(a) = 1
                   /\ \A i \in a : i = Len(trace[w]) /\ trace[w][i - 1] = Entry("is_section_empty", "empty")
            /\ a # {} => Made(w, "is_section_empty", "empty")

\* C4 witness: two workflows completed the last two tasks of one section, both
\* read it empty and both issued an archive command for it.
C4_Witness ==
    \E w, v \in Workers :
        /\ w # v /\ IsPlaybackStop(w) /\ IsPlaybackStop(v)
        /\ JellyfinItemId(data[w]) # JellyfinItemId(data[v])
        /\ section_id[w] = section_id[v]
        /\ Called(w, "archive") /\ Called(v, "archive")
        /\ archiveCmds[section_id[w]] = 2

\* C5 (as claimed): a workflow that read the section as holding a task issues
\* no archive command afterwards.
C5_NoArchiveAfterTaskSeen ==
    \A w \in Workers :
        ~\E i, j \in DOMAIN trace[w] :
            /\ i < j
            /\ trace[w][i] = Entry("is_section_empty", "nonempty")
            /\ trace[w][j].op = "archive"

\* C5 (amended): a read that finds a task does not end the pass: it is
\* followed by another read until five reads were made, and only then does
\* the workflow end without archiving; a read that finds no task, whatever
\* the reads before it found, is followed by the archive command.
C5_RetryUntilEmptyRead ==
    \A w \in Workers : IsPlaybackStop(w) =>
        \A i \in Positions(w, "is_section_empty") :
            /\ (trace[w][i].r = "nonempty" /\ i < Len(trace[w])) =>
                   trace[w][i + 1].op = "is_section_empty"
            /\ (trace[w][i].r = "nonempty" /\ i = Len(trace[w])) =>
                   \/ pc[w] = "ps_check" /\ Cardinality(Positions(w, "is_section_empty")) < MaxChecks
                   \/ pc[w] = "returned" /\ Cardinality(Positions(w, "is_section_empty")) = MaxChecks
            /\ trace[w][i].r = "empty" =>
                   \/ i = Len(trace[w]) /\ pc[w] = "ps_archive"
                   \/ i + 1 = Len(trace[w]) /\ trace[w][i + 1].op = "archive"

\* C5 witness: four reads found a task, the fifth found none, and the section
\* was archived.
C5_Witness ==
    \E w \in Workers :
        /\ IsPlaybackStop(w)
        /\ Cardinality({i \in DOMAIN trace[w] : trace[w][i] = Entry("is_section_empty", "nonempty")}) = 4
        /\ Made(w, "is_section_empty", "empty")
        /\ Made(w, "archive", "ok")
        /\ sections[section_id[w]].is_archived

ConfirmationBounded(w) ==
    LET k == Positions(w, "is_section_empty")
    IN  /\ Cardinality(k) <= MaxChecks
        /\ Cardinality(k) = attempts[w]
        /\ pc[w] = "ps_check" => attempts[w] < MaxChecks
        /\ ~Made(w, "is_section_empty", "empty") => ~Called(w, "archive")
        /\ Len(trace[w]) <= MaxChecks + 5

\* A section becomes archived only in the archive step of a workflow that
\* read it as empty.
ArchivedOnlyAfterEmptyRead ==
    \A s \in DOMAIN sections :
        (~sections[s].is_archived /\ s \in DOMAIN sections' /\ sections'[s].is_archived) =>
            \E w \in Workers :
                /\ pc[w] = "ps_archive" /\ section_id[w] = s
                /\ Made(w, "is_section_empty", "empty")

\* C6: a playback-stop workflow makes at most 5 emptiness checks; when none
\* of them reads the section as empty it issues no archive command and the
\* section is not archived by it; and, every call returning, every workflow
\* ends.
C6_ConfirmationLoopBoundedAndEnds ==
    /\ [](\A w \in Workers : IsPlaybackStop(w) => ConfirmationBounded(w))
    /\ [][ArchivedOnlyAfterEmptyRead]_vars
    /\ \A w \in Workers : Running(w) ~> ~Running(w)

\* C6 witness: five reads all found a task, the workflow ended without an
\* archive command and the section is still active.
C6_Witness ==
    \E w \in Workers :
        /\ IsPlaybackStop(w) /\ pc[w] = "returned"
        /\ attempts[w] = MaxChecks
        /\ ~Made(w, "is_section_empty", "empty")
        /\ ~Called(w, "archive")
        /\ ~sections[section_id[w]].is_archived
        /\ ActiveTasksIn(section_id[w]) # {}

UnarchiveFailed(w) == Made(w, "unarchive", "fail") \/ Made(w, "unarchive", "raise")

FoundArchived(w) ==
    IsItemAdded(w) /\ Len(trace[w]) >= 1 /\ trace[w][1] = Entry("get_archived", "ok")

C8_NoSecondSectionForArchivedSeries ==
    [][\A w \in Workers :
          (pc[w] = "ia_add_section" /\ pc'[w] # pc[w] /\ Len(sections') > Len(sections)) =>
              FirstArchivedByName(sections, data[w].SeriesName) = 0]_vars

CreatedSection(w) == IsItemAdded(w) /\ Made(w, "add_section", "ok")

\* C9: creation is not guarded by the listing: every workflow that listed no
\* section of its series creates one of its own, so two such workflows for
\* one series leave two sections of that name; and no step removes, renames
\* or merges a section.
C9_DuplicateSectionsStay ==
    /\ [](\A w \in Workers : CreatedSection(w) =>
             /\ section_id[w] \in SectionsNamed(data[w].SeriesName)
             /\ \A v \in Workers \ {w} : CreatedSection(v) => section_id[v] # section_id[w])
    /\ [][
            \A s \in DOMAIN sections :
                s \in DOMAIN sections' /\ sections'[s].name = sections[s].name]_vars

\* C9 witness: two workflows for one series both listed no section, both
\* created one, and both sections are there, each with its task.
C9_Witness ==
    \E w, v \in Workers :
        /\ w # v /\ trace[w] = FirstOfSeries /\ trace[v] = FirstOfSeries
        /\ data[w].SeriesName = data[v].SeriesName
        /\ Cardinality(SectionsNamed(data[w].SeriesName)) = 2
        /\ \A s \in SectionsNamed(data[w].SeriesName) :
               ~sections[s].is_archived /\ Cardinality(ActiveTasksIn(s)) = 1

Listed(secs, name) == {s \in DOMAIN secs : secs[s].name = name /\ ~secs[s].is_archived}

GocCreated(e) == Len(e.after) - Len(e.before)

SectionOrTaskFailed(w) ==
    /\ IsItemAdded(w)
    /\ \/ Made(w, "get_archived", "raise")
       \/ UnarchiveFailed(w)
       \/ Made(w, "get_sections", "raise")
       \/ Made(w, "add_section", "fail") \/ Made(w, "add_section", "raise")
       \/ Made(w, "add_task", "fail")

RunTimeSeconds(w) == parse_time_string(data[w].RunTime)

PositionSeconds(w) == parse_time_string(data[w].PlaybackPosition)

BothParse(w) == RunTimeSeconds(w) # None /\ PositionSeconds(w) # None

WithinMinute(w) ==
    /\ RunTimeSeconds(w) - PositionSeconds(w) <= 60
    /\ PositionSeconds(w) - RunTimeSeconds(w) <= 60

\* C12: a PlaybackStop event (with an item id) whose RunTime and
\* PlaybackPosition both parse is processed if and only if the two differ by
\* at most 60 seconds, whichever is larger.
C12_FinishedIffWithinMinute ==
    LET
        \* The handler went past its head: it is at, or has made, the mapping lookup.
        Processed(w) == pc[w] = "ps_lookup" \/ trace[w] # <<>>
    IN
        \A w \in Workers :
            (IsPlaybackStop(w) /\ pc[w] # "idle" /\ JellyfinItemId(data[w]) # "" /\ BothParse(w)) =>
                (Processed(w) <=> WithinMinute(w))

\* C12 witness: the position is exactly 60 seconds past the runtime and the
\* event was processed up to the completion of its task.
C12_Witness ==
    \E w \in Workers :
        /\ IsPlaybackStop(w) /\ BothParse(w)
        /\ PositionSeconds(w) - RunTimeSeconds(w) = 60
        /\ Made(w, "complete_task", "ok")

Ignored(w) == IsPlaybackStop(w) /\ pc[w] # "idle" /\ (~BothParse(w) \/ ~WithinMinute(w))

\* C13: a PlaybackStop event with a missing or unparsable time, or with times
\* more than 60 seconds apart, ends in the step that receives it, with no call
\* made; and the step that receives an event changes no section, task or
\* mapping.
C13_UnfinishedStopIgnored ==
    /\ [](\A w \in Workers : Ignored(w) => pc[w] = "returned" /\ trace[w] = <<>>)
    /\ [][received' # received => UNCHANGED <<sections, tasks, item_mappings, mapCall>>]_vars

\* C13 witness: the position does not parse; the event ended with no call,
\* the item's task is active and its mapping not completed.
C13_Witness ==
    \E w \in Workers :
        /\ Ignored(w) /\ RunTimeSeconds(w) # None /\ PositionSeconds(w) = None
        /\ data[w].PlaybackPosition # <<>>
        /\ pc[w] = "returned" /\ trace[w] = <<>>
        /\ item_mappings[JellyfinItemId(data[w])].todoist_item_id # 0
        /\ ~item_mappings[JellyfinItemId(data[w])].completed_at
        /\ tasks[item_mappings[JellyfinItemId(data[w])].todoist_item_id].active

\* C14: a finished PlaybackStop for an item without a mapping makes the lookup
\* and nothing else; the lookup step changes no section, task or mapping.
C14_NoMappingStopsAfterLookup ==
    /\ [](\A w \in Workers : (IsPlaybackStop(w) /\ Made(w, "get_mapping", "none")) =>
             pc[w] = "returned" /\ trace[w] = <<Entry("get_mapping", "none")>>)
    /\ [][\A w \in Workers :
              (pc[w] = "ps_lookup" /\ pc'[w] # pc[w] /\ item_mappings[JellyfinItemId(data[w])] = NoRow) =>
                  pc'[w] = "returned" /\ UNCHANGED <<sections, tasks, item_mappings, mapCall>>]_vars

\* C14 witness: the project holds an active task of another item; the event
\* for the unmapped item ended after its lookup.
C14_Witness ==
    \E w \in Workers :
        /\ IsPlaybackStop(w) /\ pc[w] = "returned"
        /\ trace[w] = <<Entry("get_mapping", "none")>>
        /\ item_mappings[JellyfinItemId(data[w])] = NoRow
        /\ \E t \in DOMAIN tasks : tasks[t].active
        /\ \A s \in DOMAIN sections : ~sections[s].is_archived

AllSucceeded(w) ==
    /\ Made(w, "add_task", "ok") /\ Made(w, "save_mapping", "ok") /\ pc[w] = "returned"

\* C15: when the lookup of a playback-stop for an item found no row and the
\* item-added workflow for that item has created its task and saved its
\* mapping, the playback-stop ended without an error after the lookup, the
\* task is active and the row holds it, not completed.
C15_StopBeforeSaveIsMiss ==
    \A w, v \in Workers :
        (/\ IsItemAdded(w) /\ IsPlaybackStop(v) /\ JellyfinItemId(data[w]) = JellyfinItemId(data[v])
         /\ Made(v, "get_mapping", "none") /\ AllSucceeded(w)) =>
            /\ pc[v] = "returned" /\ ~Called(v, "complete_task")
            /\ tasks[todoist_item_id[w]].active
            /\ item_mappings[JellyfinItemId(data[w])] =
                   [todoist_item_id |-> todoist_item_id[w], completed_at |-> FALSE]

\* C15 witness: the playback-stop arrived while the item-added workflow for
\* the same item was running and looked up before the save.
C15_Witness ==
    /\ IsItemAdded("w1") /\ IsPlaybackStop("w2") /\ JellyfinItemId(data["w1"]) = JellyfinItemId(data["w2"])
    /\ trace["w2"] = <<Entry("get_mapping", "none")>> /\ pc["w2"] = "returned"
    /\ AllSucceeded("w1")
    /\ tasks[todoist_item_id["w1"]].active
    /\ ~item_mappings[JellyfinItemId(data["w1"])].completed_at

\* C16 (as claimed): a workflow in which a gateway operation failed returns
\* normally.
C16_GatewayFailureAbsorbed ==
    \A w \in Workers :
        (\E i \in DOMAIN trace[w] : trace[w][i].r \in {"fail", "raise"}) => pc[w] # "raised"

\* C17 (as claimed): a request that is done was answered 200 exactly when
\* its body was JSON.
C17_ValidJsonAlwaysSuccess ==
    LET
        Done(w) == pc[w] \in {"returned", "raised", "bad_request"}
    IN
        \A w \in Workers : Done(w) => (Response(w) = 200 <=> data[w].Json # "malformed")

\* C18 (as claimed): complete_task reports success when the remote answers
\* with a 400-class status.
C18_AlreadyCompletedIsSuccess ==
    (clientCall.op = "complete_task" /\ 400 <= clientCall.status /\ clientCall.status < 500)
        => clientCall.ret

\* The last call was a reorder whose listings and updates all succeeded.
Reordered ==
    /\ clientCall.op = "reorder_sections"
    /\ clientCall.listed /\ clientCall.tasks_read /\ clientCall.failed = {}

ActiveTasksOf(sid) == {t \in DOMAIN tasks : tasks[t].active /\ tasks[t].section_id = sid}

\* The creation time of the newest active task of a section that has one.
LatestActive(sid) ==
    CHOOSE m \in {tasks[t].created_at.seconds : t \in ActiveTasksOf(sid)} :
        \A t \in ActiveTasksOf(sid) : tasks[t].created_at.seconds <= m

\* C19: after a reorder that succeeded, the front section, if given, has rank
\* 1; among the others a section with an active task ranks before every
\* section without one, and of two sections with active tasks the one whose
\* newest active task is newer ranks first.
C19_ReorderRules ==
    Reordered =>
        /\ clientCall.arg # 0 => sections[clientCall.arg].order = 1
        /\ \A s, t \in DOMAIN sections \ {clientCall.arg} :
               /\ (ActiveTasksOf(s) # {} /\ ActiveTasksOf(t) = {}) =>
                      sections[s].order < sections[t].order
               /\ (/\ ActiveTasksOf(s) # {} /\ ActiveTasksOf(t) # {}
                   /\ LatestActive(s) > LatestActive(t)) =>
                      sections[s].order < sections[t].order

\* C19 witness: A has one active task, B two newer ones, C none; the reorder
\* with front = B changed the order and left B, A, C.
C19_Witness ==
    /\ Reordered /\ clientCall.ret
    /\ \E a, b, c \in DOMAIN sections :
        /\ sections[a].name = "A" /\ sections[b].name = "B" /\ sections[c].name = "C"
        /\ clientCall.arg = b
        /\ Cardinality(ActiveTasksOf(a)) = 1 /\ Cardinality(ActiveTasksOf(b)) = 2
        /\ ActiveTasksOf(c) = {}
        /\ LatestActive(a) < LatestActive(b)
        /\ sections[b].order = 1 /\ sections[a].order = 2 /\ sections[c].order = 3

\* C20 (as claimed): after a reorder whose updates all succeeded, every
\* section without an active task ranks after every section with one.
C20_EmptySectionsLast ==
    (clientCall.op = "reorder_sections" /\ clientCall.listed /\ clientCall.failed = {}) =>
        \A s, t \in DOMAIN sections :
            (ActiveTasksOf(s) # {} /\ ActiveTasksOf(t) = {}) =>
                sections[s].order < sections[t].order

C22_RanksAssigned ==
    /\ []((clientCall.op = "reorder_sections" /\ clientCall.listed /\ clientCall.failed = {}) =>
            /\ \A s \in DOMAIN sections : sections[s].order \in 1..Len(sections)
            /\ \A s, t \in DOMAIN sections : s # t => sections[s].order # sections[t].order)
    /\ [][clientCall'.op = "reorder_sections" =>
            /\ clientCall'.issued \ clientCall'.failed =
                   {s \in DOMAIN sections : sections'[s].order # sections[s].order}
            /\ clientCall'.ret = (sections' # sections)]_vars

\* C22 witness: a call found the ranks 1, 1, 3 left by a failed update, issued
\* one update, which succeeded, and returned true.
C22_Witness ==
    /\ clientCall.op = "reorder_sections" /\ clientCall.listed /\ clientCall.failed = {}
    /\ clientCall.faults = 1
    /\ Cardinality(clientCall.issued) = 1
    /\ clientCall.ret

\* A section is left empty: it exists, is not archived, holds no active task
\* and no workflow is running.
LeftEmpty(sid) ==
    /\ sid \in DOMAIN sections
    /\ ~sections[sid].is_archived
    /\ ActiveTasksIn(sid) = {}
    /\ \A w \in Workers : ~Running(w)

Settled(sid) ==
    sid \in DOMAIN sections /\ (sections[sid].is_archived \/ ActiveTasksIn(sid) # {})

\* C23 (as claimed): a section left empty is archived later, or receives a
\* task, without another webhook having to arrive for it.
C23_LeftEmptySectionArchived ==
    \A sid \in 1..(MaxEvents + 1), n \in 0..(MaxEvents - 1) :
        (LeftEmpty(sid) /\ received = n) ~> (Settled(sid) \/ received # n)

\* C24: the table holds at most one row per jellyfin_item_id; a key that was
\* saved has exactly one row, holding the todoist_item_id saved last, and a
\* lookup that ran returns that id.
C24_OneRowPerItemLatestWins ==
    /\ \A i \in Items : Cardinality(RowsOf(store.rows, i)) <= 1
    /\ \A i \in Items : store.saved[i] # 0 =>
           \E r \in store.rows :
               /\ RowsOf(store.rows, i) = {r}
               /\ r.todoist_item_id = store.saved[i]
    /\ store.op = "get_todoist_item_id" => store.ret = store.saved[store.key]

\* C24 witness: a key was saved twice with different task ids, the table holds
\* the one row of the second save and the lookup returned the second id.
C24_Witness ==
    /\ store.op = "get_todoist_item_id"
    /\ \E r \in store.rows :
        /\ r.jellyfin_item_id = store.key
        /\ r.id = 2 /\ store.seq = 2
        /\ r.todoist_item_id = 2
        /\ store.ret = 2

\* C25: a key that has a row has one after every call of database.py, and a
\* lookup that ran for a key with a row returns a task id.
C25_MappingsNeverDeleted ==
    [][\A i \in Items : RowsOf(store.rows, i) # {} =>
           /\ RowsOf(store'.rows, i) # {}
           /\ (store'.op = "get_todoist_item_id" /\ store'.key = i) => store'.ret # 0]_vars

\* C25 witness: a key was saved and marked completed, and the lookup made
\* afterwards returned its task id.
C25_Witness ==
    /\ store.op = "get_todoist_item_id" /\ store.ret # 0
    /\ \E r \in store.rows :
        /\ r.jellyfin_item_id = store.key
        /\ r.completed_at
        /\ r.todoist_item_id = store.ret

RECURSIVE FirstNonEmpty(_)
FirstNonEmpty(fields) ==
    IF fields = <<>> THEN ""
    ELSE IF Head(fields) # "" THEN Head(fields)
    ELSE FirstNonEmpty(Tail(fields))

\* What the service held at its start.
AsStarted ==
    \E s \in {Started, Archived} :
        sections = s.sections /\ tasks = s.tasks /\ item_mappings = s.item_mappings

\* C26: a workflow whose event has no external item id returns without a call
\* and leaves sections, tasks and mappings as they were; an item-added
\* workflow saves its mapping under the external item id and under no other
\* key; a playback-stop workflow looks up, and marks completed, the row of
\* the external item id.
C26_FirstNonEmptyIdField ==
    LET
        \* The external item id of the event a worker handles: the first non-empty
        \* of ItemId, Id, item_id, id.
        ExternalId(w) == FirstNonEmpty(<<data[w].ItemId, data[w].Id, data[w].item_id, data[w].id>>)
    IN
        \A w \in Workers :
            (pc[w] # "idle" /\ (IsItemAdded(w) \/ IsPlaybackStop(w))) =>
                /\ ExternalId(w) = "" => (pc[w] = "returned" /\ trace[w] = <<>> /\ AsStarted)
                /\ (IsItemAdded(w) /\ Made(w, "save_mapping", "ok")) =>
                       /\ ExternalId(w) # ""
                       /\ todoist_item_id[w] # 0
                       /\ item_mappings[ExternalId(w)].todoist_item_id = todoist_item_id[w]
                       /\ \A i \in Items \ {ExternalId(w)} :
                              item_mappings[i] \in {Started.item_mappings[i], Archived.item_mappings[i]}
                /\ (IsPlaybackStop(w) /\ (Made(w, "get_mapping", "ok") \/ Made(w, "get_mapping", "none"))) =>
                       /\ ExternalId(w) # ""
                       /\ todoist_item_id[w] = item_mappings[ExternalId(w)].todoist_item_id
                /\ (IsPlaybackStop(w) /\ Made(w, "mark_completed", "ok")) =>
                       item_mappings[ExternalId(w)].completed_at

\* C26 witness: a finished PlaybackStop that names its item in the field id
\* only has closed the task of that item and marked its row.
C26_Witness ==
    \E w \in Workers :
        /\ IsPlaybackStop(w)
        /\ data[w].ItemId = "" /\ data[w].Id = "" /\ data[w].item_id = "" /\ data[w].id = "e1"
        /\ Made(w, "complete_task", "ok") /\ Made(w, "mark_completed", "ok")
        /\ item_mappings["e1"].completed_at

\* The event a worker received is neither ItemAdded nor PlaybackStop.
IsOtherEvent(w) ==
    /\ pc[w] # "idle" /\ data[w].Json = "object"
    /\ data[w].NotificationType \notin {"ItemAdded", "PlaybackStop"}

\* C27: an event of another or of no NotificationType is answered with
\* success, no call was made for it and sections, tasks and mappings are as
\* they were.
C27_OtherEventsIgnored ==
    \A w \in Workers :
        IsOtherEvent(w) =>
            /\ pc[w] = "returned" /\ Response(w) = 200
            /\ trace[w] = <<>>
            /\ AsStarted

\* C27 witness: a UserCreated event that carries an item id was answered.
C27_Witness ==
    \E w \in Workers :
        /\ IsOtherEvent(w)
        /\ data[w].NotificationType = "UserCreated" /\ data[w].ItemId = "e2"
        /\ Response(w) = 200

IsDigit(c) == c \in {"0", "1", "2", "3", "4", "5", "6", "7", "8", "9"}

\* C28: parse_time_string returns s for the HH:MM:SS and for the MM:SS
\* rendering of s seconds, and None for the empty string and for a string
\* that has not two or three fields or has a field that is no number.
C28_ParseTimeRoundTrip ==
    LET
        \* Two or three fields, each of one digit at least and of digits only.
        WellFormedTime(time_str) ==
            LET
                Colons(str) == {i \in DOMAIN str : str[i] = ":"}
            IN
                /\ Cardinality(Colons(time_str)) \in {1, 2}
                /\ \A i \in DOMAIN time_str : IsDigit(time_str[i]) \/ time_str[i] = ":"
                /\ time_str # <<>> /\ time_str[1] # ":" /\ time_str[Len(time_str)] # ":"
                /\ \A i \in Colons(time_str) : (i + 1) \notin Colons(time_str)
    IN
        /\ timeCall.op \in {"HH:MM:SS", "MM:SS"} => timeCall.ret = timeCall.seconds
        /\ timeCall.op = "string" =>
               (timeCall.ret = None <=> ~WellFormedTime(timeCall.time_str))

\* C28 witness: 01:01:01 was parsed to 3661.
C28_Witness ==
    /\ timeCall.op = "HH:MM:SS"
    /\ timeCall.time_str = <<"0", "1", ":", "0", "1", ":", "0", "1">>
    /\ timeCall.ret = 3661

\* The archive command at position a of a workflow's calls comes right after
\* a read of the section as empty, which comes after the task was closed.
ArchiveAfterEmptyRead(w, a) ==
    /\ IsPlaybackStop(w)
    /\ a > 1 /\ trace[w][a - 1] = Entry("is_section_empty", "empty")
    /\ \E c \in 1..(a - 2) : trace[w][c] = Entry("complete_task", "ok")

\* C29: every archive command was issued by a playback-stop workflow right
\* after its own read of the section as empty, made after its complete_task
\* succeeded; a workflow issues at most one; the read that sends a workflow
\* to the archive command is of its own section and finds no active task in
\* it; and a section becomes archived only by such a workflow.
C29_ArchiveOnlyAfterOwnEmptyRead ==
    /\ [](\A w \in Workers :
            /\ Cardinality(Positions(w, "archive")) <= 1
            /\ \A a \in Positions(w, "archive") : ArchiveAfterEmptyRead(w, a))
    /\ [][\A w \in Workers :
            (pc[w] = "ps_check" /\ pc'[w] = "ps_archive") =>
                /\ section_id[w] \in DOMAIN sections
                /\ ActiveTasksIn(section_id[w]) = {}]_vars
    /\ [][\A sid \in DOMAIN sections :
            (~sections[sid].is_archived /\ sid \in DOMAIN sections' /\ sections'[sid].is_archived) =>
                \E w \in Workers :
                    /\ section_id[w] = sid /\ pc[w] = "ps_archive" /\ pc'[w] # "ps_archive"
                    /\ ArchiveAfterEmptyRead(w, Len(trace[w]) + 1)]_vars

\* C29 witness: a workflow closed the task, read the section as empty at the
\* first check, issued its archive command, and the section is archived.
C29_Witness ==
    \E w \in Workers :
        /\ IsPlaybackStop(w) /\ pc[w] = "returned"
        /\ Made(w, "complete_task", "ok")
        /\ attempts[w] = 1
        /\ trace[w][Len(trace[w]) - 1] = Entry("is_section_empty", "empty")
        /\ trace[w][Len(trace[w])] = Entry("archive", "ok")
        /\ sections[section_id[w]].is_archived

\* C30 (as claimed): no archived section holds an active task, and an
\* item-added workflow creates its task in a section that is not archived at
\* that moment.
C30_NoActiveTaskInArchivedSection ==
    /\ [](\A sid \in DOMAIN sections :
            sections[sid].is_archived => ActiveTasksIn(sid) = {})
    /\ [][\A w \in Workers :
            (pc[w] = "ia_add_task" /\ Len(tasks') > Len(tasks)) =>
                ~sections[section_id[w]].is_archived]_vars

\* C31: a playback-stop workflow lists the sections before it closes the
\* task and takes the first listed section whose name is the series name; a
\* workflow whose listing failed or held no such section still closes the
\* task and marks the mapping, and makes no emptiness check and issues no
\* archive command.
C31_SectionResolvedBeforeCompletion ==
    /\ [](\A w \in Workers : IsPlaybackStop(w) =>
            /\ \A c \in Positions(w, "complete_task") :
                   \E g \in Positions(w, "get_sections") : g < c
            /\ section_id[w] # 0 =>
                   /\ Made(w, "get_sections", "ok")
                   /\ sections[section_id[w]].name = data[w].SeriesName
            /\ (Made(w, "get_sections", "fail") \/ Made(w, "get_sections", "none")) =>
                   /\ section_id[w] = 0
                   /\ ~Called(w, "is_section_empty") /\ ~Called(w, "archive")
                   /\ pc[w] # "ps_sections"
                   /\ pc[w] \in {"returned", "raised"} =>
                          /\ Called(w, "complete_task")
                          /\ Made(w, "complete_task", "ok") => Called(w, "mark_completed"))
    /\ [][\A w \in Workers :
            (pc[w] = "ps_sections" /\ pc'[w] # "ps_sections" /\ section_id'[w] # 0) =>
                /\ ~sections[section_id'[w]].is_archived
                /\ \A sid \in 1..(section_id'[w] - 1) :
                       sections[sid].is_archived \/ sections[sid].name # data[w].SeriesName]_vars

\* C31 witness: the listing failed; the task was closed and the mapping
\* marked, and the workflow returned leaving the empty section active.
C31_Witness ==
    \E w \in Workers :
        /\ IsPlaybackStop(w) /\ pc[w] = "returned"
        /\ Made(w, "get_sections", "fail")
        /\ Made(w, "complete_task", "ok") /\ Made(w, "mark_completed", "ok")
        /\ item_mappings[JellyfinItemId(data[w])].completed_at
        /\ ~tasks[todoist_item_id[w]].active
        /\ \E sid \in DOMAIN sections :
               /\ sections[sid].name = data[w].SeriesName
               /\ ~sections[sid].is_archived /\ ActiveTasksIn(sid) = {}

\* C32: each emptiness check of the confirmation loop answers from the tasks
\* that are active at the moment of that check: empty exactly when none of
\* them refers to the workflow's section, whatever tasks other sections or
\* no section hold.
C32_EmptyIffNoActiveTaskRefersToSection ==
    [][\A w \in Workers :
        (pc[w] = "ps_check" /\ trace'[w] # trace[w]) =>
            LET e == trace'[w][Len(trace'[w])]
            IN  /\ e.op = "is_section_empty"
                /\ e.r \in {"empty", "nonempty", "raise"}
                /\ e.r = "empty" =>
                       \A t \in DOMAIN tasks :
                           tasks[t].active => tasks[t].section_id # section_id[w]
                /\ e.r = "nonempty" =>
                       \E t \in DOMAIN tasks :
                           tasks[t].active /\ tasks[t].section_id = section_id[w]]_vars

\* C32 witness: a check answered empty while an active task outside every
\* section was listed.
C32_Witness ==
    \E w \in Workers :
        /\ IsPlaybackStop(w)
        /\ trace[w] # <<>> /\ trace[w][Len(trace[w])] = Entry("is_section_empty", "empty")
        /\ \E t \in DOMAIN tasks : tasks[t].active /\ tasks[t].section_id = 0
        /\ section_id[w] # 0 /\ ActiveTasksIn(section_id[w]) = {}

\* C33: a call of the client whose reading of the active tasks failed does
\* not take the sections to be empty: is_section_empty does not answer
\* empty, and reorder_sections issues no order update.
C33_FailedReadNotTakenAsEmpty ==
    /\ (clientCall.op = "is_section_empty" /\ ~clientCall.tasks_read) => ~clientCall.ret
    /\ (clientCall.op = "reorder_sections" /\ clientCall.listed /\ ~clientCall.tasks_read) =>
           clientCall.issued = {}

\* C34: a reorder_sections call that listed the sections attempts the update
\* of every section whose rank differs from its target, whether or not
\* another update of the call failed; the updates that failed leave their
\* sections as they were; the call returns true iff one of its updates
\* succeeded; and the call that follows with the same front section on the
\* same tasks issues exactly the updates that failed.
C34_OrderUpdatesBestEffort ==
    /\ [](clientCall.op = "reorder_sections" =>
            /\ clientCall.failed \subseteq clientCall.issued
            /\ clientCall.ret = (clientCall.issued \ clientCall.failed # {}))
    /\ [][LET \* The rank a call with this front section and this outcome of
               \* the task listing gives to the section.
               TargetRank(front_section_id, tasks_read, sid) ==
                   LET listing == get_tasks(tasks, IF tasks_read THEN "ok" ELSE "fail")
                       keys == [s \in DOMAIN sections |->
                                   SortKey(tasks, listing, front_section_id, s)]
                   IN  SortedIndex(keys, sid)
           IN
           (clientCall'.op = "reorder_sections" /\ clientCall'.listed) =>
            /\ clientCall'.issued =
                   {s \in DOMAIN sections :
                        sections[s].order #
                            TargetRank(clientCall'.arg, clientCall'.tasks_read, s)}
            /\ \A s \in clientCall'.failed : sections'[s] = sections[s]
            /\ \A s \in clientCall'.issued \ clientCall'.failed :
                   sections'[s].order = TargetRank(clientCall'.arg, clientCall'.tasks_read, s)
            /\ (/\ clientCall.op = "reorder_sections" /\ clientCall.listed
                /\ clientCall'.arg = clientCall.arg
                /\ clientCall'.tasks_read = clientCall.tasks_read
                /\ tasks' = tasks) =>
                   clientCall'.issued = clientCall.failed]_vars

\* C34 witness: of the three updates a call issued one failed; the two
\* others were applied and the call returned true.
C34_Witness ==
    /\ clientCall.op = "reorder_sections" /\ clientCall.ret
    /\ Cardinality(clientCall.issued) = 3 /\ Cardinality(clientCall.failed) = 1
    /\ \E s, t \in DOMAIN sections : s # t /\ sections[s].order = sections[t].order

\* C35: a save_mapping that succeeds leaves the key with one row, a new one:
\* it holds the task id given and no completion time, whatever the row it
\* replaced held; and a row comes to hold a completion time only in a
\* mark_completed call for its key.
C35_ResaveReplacesWholeRow ==
    /\ []((store.op = "save_mapping" /\ store.ret = 1) =>
            \E r \in store.rows :
                /\ RowsOf(store.rows, store.key) = {r}
                /\ r.todoist_item_id = store.saved[store.key]
                /\ ~r.completed_at
                /\ r.id = store.seq
                /\ \A q \in store.replaced : q.id < r.id)
    /\ [][\A r \in store'.rows :
            (r.completed_at /\ r \notin store.rows) =>
                /\ store'.op = "mark_completed" /\ store'.key = r.jellyfin_item_id
                /\ [r EXCEPT !.completed_at = FALSE] \in store.rows]_vars

\* C35 witness: the save replaced a row marked completed that held another
\* task id; the key's row holds the new id and no completion time.
C35_Witness ==
    /\ store.op = "save_mapping" /\ store.ret = 1
    /\ \E q \in store.replaced, r \in store.rows :
        /\ q.completed_at /\ q.jellyfin_item_id = store.key
        /\ r.jellyfin_item_id = store.key
        /\ r.todoist_item_id # q.todoist_item_id /\ ~r.completed_at

\* C37: a call of database.py leaves the rows of every key but its own as
\* they were; mark_completed adds no row, leaves the id and the task id of
\* the key's row as they were and returns False for a key without a row; a
\* lookup, and any call that hits a database error, leaves the table as it
\* was.
C37_StoreCallsTouchOwnKeyOnly ==
    [][store' # store =>
        /\ \A i \in Items \ {store'.key} : RowsOf(store'.rows, i) = RowsOf(store.rows, i)
        /\ store'.op = "mark_completed" =>
               /\ {[id |-> r.id, todoist_item_id |-> r.todoist_item_id] :
                       r \in RowsOf(store'.rows, store'.key)}
                   = {[id |-> r.id, todoist_item_id |-> r.todoist_item_id] :
                       r \in RowsOf(store.rows, store'.key)}
               /\ Cardinality(store'.rows) = Cardinality(store.rows)
               /\ RowsOf(store.rows, store'.key) = {} => store'.ret = 0
               /\ store'.seq = store.seq
        /\ store'.op \in {"get_todoist_item_id", "get_todoist_item_id failed"} =>
               store'.rows = store.rows /\ store'.seq = store.seq
        /\ store'.ret = 0 => store'.rows = store.rows]_vars

\* C37 witness: mark_completed marked the row of its key and left the row of
\* another key, not completed, as it was.
C37_Witness ==
    /\ store.op = "mark_completed" /\ store.ret = 1
    /\ \E r, q \in store.rows :
        /\ r.jellyfin_item_id = store.key /\ r.completed_at
        /\ q.jellyfin_item_id # store.key /\ ~q.completed_at

\* C36: every add_task of an ItemAdded workflow that succeeds creates a new
\* active task and changes no other, whether or not the item has a mapping;
\* every save that succeeds makes the mapping refer to the saving workflow's
\* task, not completed; a playback-stop closes the task its lookup found in
\* the mapping and no other task; and its emptiness check answers empty
\* only when no other task of the section is active.
C36_ItemAddedDoesNotDeduplicate ==
    /\ [](\A w, v \in Workers :
            (w # v /\ Made(w, "add_task", "ok") /\ Made(v, "add_task", "ok")) =>
                todoist_item_id[w] # todoist_item_id[v])
    /\ [][LET \* The step is worker w's call op returning r.
               Returns(w, op, r) == trace'[w] = Append(trace[w], Entry(op, r))
           IN  \A w \in Workers :
            /\ Returns(w, "add_task", "ok") =>
                   /\ tasks' = Append(tasks, [section_id |-> section_id[w], active |-> TRUE])
                   /\ todoist_item_id'[w] = Len(tasks')
            /\ Returns(w, "save_mapping", "ok") =>
                   item_mappings' =
                       [item_mappings EXCEPT ![JellyfinItemId(data[w])] =
                           [todoist_item_id |-> todoist_item_id[w], completed_at |-> FALSE]]
            /\ Returns(w, "get_mapping", "ok") =>
                   todoist_item_id'[w] = item_mappings[JellyfinItemId(data[w])].todoist_item_id
            /\ Returns(w, "complete_task", "ok") =>
                   \A t \in DOMAIN tasks :
                       tasks'[t] = IF t = todoist_item_id[w]
                                   THEN [tasks[t] EXCEPT !.active = FALSE] ELSE tasks[t]
            /\ Returns(w, "is_section_empty", "empty") =>
                   \A t \in DOMAIN tasks \ {todoist_item_id[w]} :
                       tasks[t].section_id = section_id[w] => ~tasks[t].active]_vars

\* C36 witness: the item had a task and a mapping when a second ItemAdded
\* for it created task 2 and saved it; the finished playback-stop closed task
\* 2 and marked the mapping, task 1 stayed active, all the checks answered
\* nonempty and the section stayed active.
C36_Witness ==
    \E w, v \in Workers :
        /\ IsItemAdded(w) /\ IsPlaybackStop(v)
        /\ JellyfinItemId(data[w]) = "e1" /\ JellyfinItemId(data[v]) = "e1"
        /\ Made(w, "add_task", "ok") /\ Made(w, "save_mapping", "ok")
        /\ todoist_item_id[w] = 2 /\ todoist_item_id[v] = 2
        /\ Len(tasks) = 2 /\ tasks[1].active /\ ~tasks[2].active
        /\ tasks[1].section_id = tasks[2].section_id
        /\ item_mappings["e1"] = [todoist_item_id |-> 2, completed_at |-> TRUE]
        /\ pc[v] = "returned"
        /\ Cardinality({i \in DOMAIN trace[v] :
                            trace[v][i] = Entry("is_section_empty", "nonempty")}) = MaxChecks
        /\ ~Called(v, "archive")
        /\ ~sections[section_id[v]].is_archived

\* C38: for an id that is empty or holds a character that is not a digit
\* the call returns nothing and makes no request; otherwise its requests
\* carry the labels task, item, items, tasks in this order and the number
\* the id reads as, it goes on to the next label exactly when the request
\* failed or its answer yielded no new id for the input, and it returns the
\* new id the last answer yielded, or nothing after the fourth label.
C38_LegacyIdMappedByFirstLabelThatAnswers ==
    LET
        \* The new id of the first entry of the answer whose old id reads as the
        \* input and that carries a new id; 0 when the request failed or the answer
        \* holds no such entry.
        Yielded(response, legacy_id) ==
            LET hits == {i \in DOMAIN response.mappings :
                            /\ (IF response.mappings[i].old_id.num
                                THEN Decimal(response.mappings[i].old_id.value)
                                ELSE response.mappings[i].old_id.value) = legacy_id
                            /\ response.mappings[i].new_id # 0}
            IN  IF response.status # 200 \/ hits = {} THEN 0
                ELSE response.mappings[CHOOSE i \in hits : \A j \in hits : i <= j].new_id
    IN
        LET id == mapCall.legacy_id
            numeric == id # <<>> /\ \A i \in DOMAIN id : IsDigit(id[i])
        IN  /\ (mapCall.op # "none" /\ ~numeric) =>
                   mapCall.op = "returned" /\ mapCall.requests = <<>> /\ mapCall.ret = 0
            /\ Len(mapCall.requests) <= 4
            /\ \A i \in DOMAIN mapCall.requests :
                   /\ mapCall.requests[i].resource_type = <<"task", "item", "items", "tasks">>[i]
                   /\ Decimal(mapCall.requests[i].ids[1]) \in {id, Tail(id)}
            /\ mapCall.op = "running" =>
                   /\ mapCall.ret = 0 /\ Len(mapCall.requests) < 4
                   /\ mapCall.requests # <<>> => Yielded(mapCall.response, id) = 0
            /\ (mapCall.op = "returned" /\ numeric) =>
                   /\ mapCall.requests # <<>>
                   /\ mapCall.ret = Yielded(mapCall.response, id)
                   /\ mapCall.ret = 0 => Len(mapCall.requests) = 4

\* C38 witness: the first two labels were skipped; the answer to the third
\* held an entry with the old id and no new id, then one with the old id as
\* a number and new id 2, which was returned.
C38_Witness ==
    /\ mapCall.op = "returned" /\ mapCall.legacy_id = <<"7">>
    /\ Len(mapCall.requests) = 3 /\ mapCall.requests[3].resource_type = "items"
    /\ mapCall.response.status = 200
    /\ mapCall.response.mappings =
           <<[old_id |-> [num |-> FALSE, value |-> <<"7">>], new_id |-> 0],
             [old_id |-> [num |-> TRUE, value |-> 7], new_id |-> 2]>>
    /\ mapCall.ret = 2

====
